---- MODULE Spec2Model ----
(***************************************************************************)
(* Model of the document verifier: the MRZ parser (MRZParser), the         *)
(* cross-field validator and eligibility assessor (DocumentValidator),     *)
(* as they are written in lib/mrz-parser.ts and lib/document-validator.ts. *)
(*                                                                         *)
(* A JavaScript string is a sequence of one-character strings; null and    *)
(* undefined are the empty option <<>> and a present value v is <<v>>.     *)
(***************************************************************************)
EXTENDS Integers, Sequences, FiniteSets, TLC

VARIABLES
    pc,                \* the last operation that completed
    data,              \* validateChecksum: the data string
    accepted,          \* validateChecksum: the check characters it accepts
    text,              \* extractMRZFromText: the OCR text
    mrzLines,          \* extractMRZFromText result / parseMRZ argument
    mrzData,           \* parseMRZ result (an option)
    extractedData,     \* validateDocument: the extracted field map
    applicantForm,     \* validateDocument: the applicant form (an option)
    policy,            \* validateDocument: the eligibility policy (an option)
    now,               \* the value of new Date() at evaluation time
    checks,            \* the ValidationCheck list
    eligibility,       \* assessEligibility result (an option)
    overallConfidence, \* generateRecommendations: extraction confidence
    recommendations,   \* generateRecommendations result
    strings,           \* calculateSimilarity: the pair of its arguments
    ratio,             \* calculateSimilarity result (an option)
    request,           \* POST: what the request carries
    ocrConfidence,     \* POST: the confidence the OCR reports, in hundredths
    responseStatus,    \* POST: the status of the response, 0 before it
    resultType,        \* POST: the documentType of the result
    resultSummary,     \* POST: the summary of the result
    imageFile,         \* Home: the selected file (an option)
    imagePreview,      \* Home: the data URL shown as preview
    result,            \* Home: the VerificationResult shown (an option)
    loading,           \* Home: a verification is under way
    error,             \* Home: the error message shown
    readers            \* the files of the FileReaders that have not finished

vars == <<pc, data, accepted, text, mrzLines, mrzData, extractedData,
          applicantForm, policy, now, checks, eligibility,
          overallConfidence, recommendations, strings, ratio,
          request, ocrConfidence, responseStatus, resultType, resultSummary,
          imageFile, imagePreview, result, loading, error, readers>>

(***************************************************************************)
(* Bounds of the model.                                                    *)
(***************************************************************************)
MaxDataLen == 4
MaxLines == 3
MaxTextLines == 3
MaxChecks == 3
MaxTally == 20
MaxNameLen == 3
MaxReaders == 2

(***************************************************************************)
(* Options and small helpers.                                              *)
(***************************************************************************)
None == <<>>
Some(x) == <<x>>
IsSome(o) == Len(o) > 0
Get(o) == o[1]

Range(s) == {s[i] : i \in 1..Len(s)}
Rep(c, n) == [i \in 1..n |-> c]
Min(a, b) == IF a < b THEN a ELSE b
Max(a, b) == IF a > b THEN a ELSE b

RECURSIVE SeqsUpTo(_, _)
SeqsUpTo(S, n) ==
    IF n = 0 THEN {<<>>}
    ELSE LET shorter == SeqsUpTo(S, n - 1)
         IN  shorter \cup {Append(s, x) : s \in {t \in shorter : Len(t) = n - 1}, x \in S}

(***************************************************************************)
(* Characters.  CharCode is the UTF-16 code unit, which is what the        *)
(* comparisons char >= '0', char <= 'Z' and charCodeAt(0) work on.         *)
(***************************************************************************)
Digits == <<"0", "1", "2", "3", "4", "5", "6", "7", "8", "9">>
UpperCase == <<"A", "B", "C", "D", "E", "F", "G", "H", "I", "J", "K", "L", "M",
               "N", "O", "P", "Q", "R", "S", "T", "U", "V", "W", "X", "Y", "Z">>
LowerCase == <<"a", "b", "c", "d", "e", "f", "g", "h", "i", "j", "k", "l", "m",
               "n", "o", "p", "q", "r", "s", "t", "u", "v", "w", "x", "y", "z">>
Filler == "<"
WhiteSpace == {" ", "\t", "\n", "\r"}

IndexOf(s, c) == CHOOSE i \in 1..Len(s) : s[i] = c

CharCode(c) ==
    IF c \in Range(Digits) THEN 47 + IndexOf(Digits, c)
    ELSE IF c \in Range(UpperCase) THEN 64 + IndexOf(UpperCase, c)
    ELSE IF c \in Range(LowerCase) THEN 96 + IndexOf(LowerCase, c)
    ELSE CASE c = "<" -> 60
           [] c = " " -> 32
           [] c = "\t" -> 9
           [] c = "\n" -> 10
           [] c = "\r" -> 13
           [] c = "-" -> 45
           [] c = "." -> 46
           [] c = "/" -> 47
           [] c = ":" -> 58
           [] c = "#" -> 35

IsDigit(c) == CharCode(c) >= CharCode("0") /\ CharCode(c) <= CharCode("9")
IsUpper(c) == CharCode(c) >= CharCode("A") /\ CharCode(c) <= CharCode("Z")
\* the character class [A-Z0-9<]
IsMRZChar(c) == IsUpper(c) \/ IsDigit(c) \/ c = Filler

\* Number.prototype.toString / template interpolation of a non-negative integer
RECURSIVE NumToStr(_)
NumToStr(n) ==
    IF n < 10 THEN <<Digits[n + 1]>>
    ELSE Append(NumToStr(n \div 10), Digits[(n % 10) + 1])

\* String.prototype.substring(a, b) with 0 <= a <= b: both ends clamp to the length
Substring(s, a, b) == SubSeq(s, Min(a, Len(s)) + 1, Min(b, Len(s)))

\* s.replace(/[^A-Z0-9<]/g, '')
CleanLine(s) == SelectSeq(s, IsMRZChar)

\* s.replace(/\s/g, '')
StripWhiteSpace(s) == SelectSeq(s, LAMBDA c : c \notin WhiteSpace)

\* the largest member of a finite set of naturals, 0 for the empty set
MaxOf(S) == IF S = {} THEN 0 ELSE CHOOSE i \in S : \A j \in S : j <= i
MinOf(S) == CHOOSE i \in S : \A j \in S : i <= j

\* s.replace(/<+$/, ''): everything up to the last character that is not '<'
StripTrailingFiller(s) == SubSeq(s, 1, MaxOf({i \in 1..Len(s) : s[i] # Filler}))

\* s.replace(/</g, ' ')
FillerToSpace(s) == [i \in 1..Len(s) |-> IF s[i] = Filler THEN " " ELSE s[i]]

\* String.prototype.trim(): from the first to the last character that is
\* not white space
Trim(s) ==
    LET inked == {i \in 1..Len(s) : s[i] \notin WhiteSpace}
    IN  IF inked = {} THEN <<>> ELSE SubSeq(s, MinOf(inked), MaxOf(inked))

\* s.split(sep) for a non-empty separator: the pieces between the
\* non-overlapping occurrences of sep, found left to right
\* (from is the 1-based position where the current piece starts)
Split(s, sep) ==
    LET RECURSIVE SplitFrom(_)
        SplitFrom(from) ==
            LET hits == {i \in from..(Len(s) - Len(sep) + 1) :
                            SubSeq(s, i, i + Len(sep) - 1) = sep}
            IN  IF hits = {} THEN <<SubSeq(s, from, Len(s))>>
                ELSE <<SubSeq(s, from, MinOf(hits) - 1)>>
                     \o SplitFrom(MinOf(hits) + Len(sep))
    IN  SplitFrom(1)

(***************************************************************************)
(* MRZParser.validateChecksum                                              *)
(***************************************************************************)
weights == <<7, 3, 1>>

\* CharValue with the letters counted from 1 instead of from 10
CharValue_LettersFromOne(char) ==
    IF IsDigit(char) THEN CharCode(char) - CharCode("0")
    ELSE IF IsUpper(char) THEN CharCode(char) - CharCode("A") + 1
    ELSE 0

\* the value the loop body gives one character
CharValue(char) ==
    IF IsDigit(char) THEN CharCode(char) - CharCode("0")
    ELSE IF IsUpper(char) THEN CharCode(char) - CharCode("A") + 10
    ELSE 0

\* ChecksumLoop is the for loop: the sum after the characters at 0-based
\* positions i .. length-1
validateChecksum(str, checksum) ==
    LET RECURSIVE ChecksumLoop(_, _)
        ChecksumLoop(i, sum) ==
            IF i >= Len(str) THEN sum
            ELSE ChecksumLoop(i + 1, sum + CharValue(str[i + 1]) * weights[(i % 3) + 1])
        calculatedChecksum == NumToStr(ChecksumLoop(0, 0) % 10)
    IN  calculatedChecksum = checksum

(***************************************************************************)
(* MRZParser.parseDate                                                     *)
(***************************************************************************)

RECURSIVE ParseDigits(_, _, _, _)
ParseDigits(s, alphabet, acc, seen) ==
    IF Len(s) > 0 /\ s[1] \in Range(alphabet)
    THEN ParseDigits(Tail(s), alphabet,
                     acc * Len(alphabet) + IndexOf(alphabet, s[1]) - 1, TRUE)
    ELSE IF seen THEN Some(acc) ELSE None

\* parseInt(s) without a radix, for strings over [A-Z0-9<]: a "0X" prefix
\* selects base 16, otherwise the longest prefix of decimal digits is read;
\* no digit at all gives NaN, the empty option
parseInt(s) ==
    LET HexDigits == <<"0", "1", "2", "3", "4", "5", "6", "7", "8", "9",
                       "A", "B", "C", "D", "E", "F">>
    IN
    IF Len(s) >= 2 /\ SubSeq(s, 1, 2) = <<"0", "X">>
    THEN ParseDigits(SubSeq(s, 3, Len(s)), HexDigits, 0, FALSE)
    ELSE ParseDigits(s, Digits, 0, FALSE)

NaNString == <<"N", "a", "N">>

\* parseDate that counts the year 50 to the 2000s
parseDate_FiftyIsThisCentury(dateStr) ==
    IF Len(dateStr) # 6 THEN <<>>
    ELSE LET year == parseInt(Substring(dateStr, 0, 2))
             month == Substring(dateStr, 2, 4)
             day == Substring(dateStr, 4, 6)
             fullYear == IF IsSome(year)
                         THEN NumToStr(IF Get(year) <= 50 THEN 2000 + Get(year)
                                       ELSE 1900 + Get(year))
                         ELSE NaNString
         IN  fullYear \o <<"-">> \o month \o <<"-">> \o day

parseDate(dateStr) ==
    IF Len(dateStr) # 6 THEN <<>>
    ELSE LET year == parseInt(Substring(dateStr, 0, 2))
             month == Substring(dateStr, 2, 4)
             day == Substring(dateStr, 4, 6)
             fullYear == IF IsSome(year)
                         THEN NumToStr(IF Get(year) < 50 THEN 2000 + Get(year)
                                       ELSE 1900 + Get(year))
                         ELSE NaNString
         IN  fullYear \o <<"-">> \o month \o <<"-">> \o day

(***************************************************************************)
(* MRZParser.parseTD3, parseTD1, parseMRZ                                  *)
(***************************************************************************)
\* NamePart that keeps the filler characters inside a name
NamePart_KeepFiller(names, k) ==
    IF k + 1 <= Len(names) THEN Trim(names[k + 1]) ELSE <<>>

\* names[k]?.replace(/</g, ' ').trim() || ''   (k is 0-based)
NamePart(names, k) ==
    IF k + 1 <= Len(names) THEN Trim(FillerToSpace(names[k + 1])) ELSE <<>>

\* parseTD3 that leaves the expiry date's check digit out of checksumValid
parseTD3_NoExpiryDigit(lines) ==
    LET line1 == lines[1]
        line2 == lines[2]
        names == Split(Substring(line1, 5, 44), <<Filler, Filler>>)
        documentNumberChecksum == Substring(line2, 9, 10)
        dobChecksum == Substring(line2, 19, 20)
    IN  [documentType |-> StripTrailingFiller(Substring(line1, 0, 2)),
         issuingCountry |-> StripTrailingFiller(Substring(line1, 2, 5)),
         documentNumber |-> StripTrailingFiller(Substring(line2, 0, 9)),
         dateOfBirth |-> parseDate(Substring(line2, 13, 19)),
         expiryDate |-> parseDate(Substring(line2, 21, 27)),
         nationality |-> StripTrailingFiller(Substring(line2, 10, 13)),
         surname |-> NamePart(names, 0),
         givenNames |-> NamePart(names, 1),
         sex |-> Substring(line2, 20, 21),
         checksumValid |->
             /\ validateChecksum(Substring(line2, 0, 9), documentNumberChecksum)
             /\ validateChecksum(Substring(line2, 13, 19), dobChecksum)]

parseTD3(lines) ==
    LET line1 == lines[1]
        line2 == lines[2]
        names == Split(Substring(line1, 5, 44), <<Filler, Filler>>)
        documentNumberChecksum == Substring(line2, 9, 10)
        dobChecksum == Substring(line2, 19, 20)
        expiryChecksum == Substring(line2, 27, 28)
    IN  [documentType |-> StripTrailingFiller(Substring(line1, 0, 2)),
         issuingCountry |-> StripTrailingFiller(Substring(line1, 2, 5)),
         documentNumber |-> StripTrailingFiller(Substring(line2, 0, 9)),
         dateOfBirth |-> parseDate(Substring(line2, 13, 19)),
         expiryDate |-> parseDate(Substring(line2, 21, 27)),
         nationality |-> StripTrailingFiller(Substring(line2, 10, 13)),
         surname |-> NamePart(names, 0),
         givenNames |-> NamePart(names, 1),
         sex |-> Substring(line2, 20, 21),
         checksumValid |->
             /\ validateChecksum(Substring(line2, 0, 9), documentNumberChecksum)
             /\ validateChecksum(Substring(line2, 13, 19), dobChecksum)
             /\ validateChecksum(Substring(line2, 21, 27), expiryChecksum)]

parseTD1(lines) ==
    LET line1 == lines[1]
        line2 == lines[2]
        line3 == lines[3]
        names == Split(line3, <<Filler, Filler>>)
    IN  [documentType |-> StripTrailingFiller(Substring(line1, 0, 2)),
         issuingCountry |-> StripTrailingFiller(Substring(line1, 2, 5)),
         documentNumber |-> StripTrailingFiller(Substring(line1, 5, 14)),
         dateOfBirth |-> parseDate(Substring(line2, 0, 6)),
         expiryDate |-> parseDate(Substring(line2, 8, 14)),
         nationality |-> StripTrailingFiller(Substring(line2, 15, 18)),
         surname |-> NamePart(names, 0),
         givenNames |-> NamePart(names, 1),
         sex |-> Substring(line2, 7, 8),
         checksumValid |-> TRUE]

parseMRZ(rawLines) ==
    IF Len(rawLines) < 2 THEN None
    ELSE LET lines == [i \in 1..Len(rawLines) |-> CleanLine(rawLines[i])]
         IN  IF Len(lines) = 2 /\ Len(lines[1]) = 44 /\ Len(lines[2]) = 44
             THEN Some(parseTD3(lines))
             ELSE IF Len(lines) = 3 /\ Len(lines[1]) = 30
                  THEN Some(parseTD1(lines))
                  ELSE None

(***************************************************************************)
(* MRZParser.extractMRZFromText                                            *)
(***************************************************************************)
\* mrzPattern with the upper length limit exclusive
mrzPattern_ShortLimit(cleanLine) ==
    /\ Len(cleanLine) >= 28
    /\ Len(cleanLine) < 44
    /\ \A i \in 1..Len(cleanLine) : IsMRZChar(cleanLine[i])

\* /^[A-Z0-9<]{28,44}$/.test(cleanLine)
mrzPattern(cleanLine) ==
    /\ Len(cleanLine) >= 28
    /\ Len(cleanLine) <= 44
    /\ \A i \in 1..Len(cleanLine) : IsMRZChar(cleanLine[i])

\* ExtractLoop is the for-of loop over the trimmed lines, pushing the
\* qualifying ones
extractMRZFromText(txt) ==
    LET RECURSIVE ExtractLoop(_, _)
        ExtractLoop(rest, found) ==
            IF Len(rest) = 0 THEN found
            ELSE LET cleanLine == StripWhiteSpace(Head(rest))
                 IN  ExtractLoop(Tail(rest),
                                 IF mrzPattern(cleanLine) THEN Append(found, cleanLine)
                                 ELSE found)
        split == Split(txt, <<"\n">>)
        lines == [i \in 1..Len(split) |-> Trim(split[i])]
    IN  ExtractLoop(lines, <<>>)

(***************************************************************************)
(* IEEE 754 double arithmetic of the expressions (x / y) * 100 followed by *)
(* Math.round or toFixed(0).  A significand is a natural number written in *)
(* limbs of LimbBits bits, most significant first; a positive double is a  *)
(* 53-bit significand m and the exponent e of its last bit, its value is   *)
(* m * 2^e.  Every operation rounds to nearest, ties to even.              *)
(***************************************************************************)
SignificandBits == 53
LimbBits == 18
LimbBase == 2 ^ LimbBits

RECURSIVE StripLeadingZeros(_)
StripLeadingZeros(x) ==
    IF Len(x) > 0 /\ x[1] = 0 THEN StripLeadingZeros(Tail(x)) ELSE x

BitLength(x) ==
    LET RECURSIVE SmallBitLength(_)
        SmallBitLength(n) == IF n = 0 THEN 0 ELSE 1 + SmallBitLength(n \div 2)
        y == StripLeadingZeros(x)
    IN  IF Len(y) = 0 THEN 0 ELSE LimbBits * (Len(y) - 1) + SmallBitLength(y[1])

\* x * k + carry for a small k
RECURSIVE BigMulSmall(_, _, _)
BigMulSmall(x, k, carry) ==
    IF Len(x) = 0 THEN (IF carry = 0 THEN <<>> ELSE <<carry>>)
    ELSE LET v == x[Len(x)] * k + carry
         IN  Append(BigMulSmall(SubSeq(x, 1, Len(x) - 1), k, v \div LimbBase),
                    v % LimbBase)

\* floor(x / 2^s)
BigShr(x, s) ==
    LET whole == s \div LimbBits
        r == s % LimbBits
        y == SubSeq(x, 1, Len(x) - whole)
    IN  [i \in 1..Len(y) |->
            (IF i = 1 THEN 0 ELSE (y[i - 1] % (2 ^ r)) * (2 ^ (LimbBits - r)))
            + (y[i] \div (2 ^ r))]

\* the value of a significand that fits one limb
BigToNat(x) == LET y == StripLeadingZeros(x) IN IF Len(y) = 0 THEN 0 ELSE y[1]

\* round the exact value x * 2^e to a double; x has between 54 and
\* 53 + LimbBits bits, sticky says a non-zero tail below x was cut off
RoundToDouble(x, e, sticky) ==
    LET s == BitLength(x) - SignificandBits
        low == x[Len(x)] % (2 ^ s)
        half == 2 ^ (s - 1)
        kept == BigShr(x, s)
        odd == kept[Len(kept)] % 2 = 1
        roundUp == low > half \/ (low = half /\ (sticky \/ odd))
        m == IF roundUp THEN BigMulSmall(kept, 1, 1) ELSE kept
    IN  IF BitLength(m) > SignificandBits
        THEN [m |-> BigShr(m, 1), e |-> e + s + 1]
        ELSE [m |-> m, e |-> e + s]

\* the double n / d for small integers n > 0, d > 0: n / d is scaled into
\* [1, 2), n / d = (r / dd) * 2^e with dd <= r < 2 * dd, then 54 quotient
\* bits in three limbs, then the rounding
FloatDiv(n, d) ==
    LET RECURSIVE ScaleDown(_, _, _)
        ScaleDown(r, dd, e) ==
            IF r < 2 * dd THEN [r |-> r, d |-> dd, e |-> e] ELSE ScaleDown(r, 2 * dd, e + 1)
        RECURSIVE ScaleUp(_, _, _)
        ScaleUp(r, dd, e) ==
            IF r >= dd THEN [r |-> r, d |-> dd, e |-> e] ELSE ScaleUp(2 * r, dd, e - 1)
        down == ScaleDown(n, d, 0)
        sc == ScaleUp(down.r, down.d, down.e)
        n1 == sc.r * (2 ^ (LimbBits - 1))
        n2 == (n1 % sc.d) * LimbBase
        n3 == (n2 % sc.d) * LimbBase
    IN  RoundToDouble(<<n1 \div sc.d, n2 \div sc.d, n3 \div sc.d>>,
                      sc.e - SignificandBits, n3 % sc.d # 0)

\* the double x * k for a small integer k > 1
FloatMul(x, k) == RoundToDouble(BigMulSmall(x.m, k, 0), x.e, FALSE)

\* Math.round(x) for a positive double with a fraction part (e < 0):
\* floor(x + 0.5), which is also what toFixed(0) prints for it
MathRound(x) ==
    LET w == BigToNat(BigShr(x.m, (-x.e) - 1))
    IN  (w \div 2) + (w % 2)

\* Math.round((n / d) * 100), ((n / d) * 100).toFixed(0), for 0 <= n <= d
RoundedPercent(n, d) ==
    IF n = 0 THEN 0 ELSE MathRound(FloatMul(FloatDiv(n, d), 100))

(***************************************************************************)
(* Dates.  A Date object is [y, m, d, t]: the local calendar day and the   *)
(* time of day t in ticks (0 is midnight); an Invalid Date is the empty    *)
(* option.  The operators follow date-fns, which the validator imports.    *)
(***************************************************************************)

\* the number a string of decimal digits denotes
RECURSIVE DigitsValue(_)
DigitsValue(s) ==
    IF Len(s) = 0 THEN 0
    ELSE 10 * DigitsValue(SubSeq(s, 1, Len(s) - 1)) + IndexOf(Digits, s[Len(s)]) - 1

CalendarDate(y, m, d) ==
    LET IsLeapYear == (y % 4 = 0 /\ y % 100 # 0) \/ y % 400 = 0
        DaysInMonth == IF m = 2 THEN (IF IsLeapYear THEN 29 ELSE 28)
                       ELSE IF m \in {4, 6, 9, 11} THEN 30 ELSE 31
    IN
    IF m >= 1 /\ m <= 12 /\ d >= 1 /\ d <= DaysInMonth
    THEN Some([y |-> y, m |-> m, d |-> d, t |-> 0])
    ELSE None

\* parseISO(s) for a string without a time part: a four-digit year followed
\* by nothing, by [-]MM or by [-]MM[-]DD is a date at local midnight when
\* the month and the day exist, and every other string is an Invalid Date;
\* parseISO never throws.  (The ordinal-day and week forms are not drawn.)
parseISO(s) ==
    LET AllDigits(part) == \A i \in 1..Len(part) : part[i] \in Range(Digits)
    IN
    IF Len(s) < 4 \/ ~AllDigits(SubSeq(s, 1, 4)) THEN None
    ELSE LET y == DigitsValue(SubSeq(s, 1, 4))
             tail == SubSeq(s, 5, Len(s))
             rest == IF Len(tail) > 0 /\ tail[1] = "-" THEN Tail(tail) ELSE tail
             mm == SubSeq(rest, 1, 2)
             after == SubSeq(rest, 3, Len(rest))
             dd == IF Len(after) > 0 /\ after[1] = "-" THEN Tail(after) ELSE after
         IN  IF Len(tail) = 0 THEN CalendarDate(y, 1, 1)
             ELSE IF Len(mm) # 2 \/ ~AllDigits(mm) THEN None
             ELSE IF Len(after) = 0 THEN CalendarDate(y, DigitsValue(mm), 1)
             ELSE IF Len(dd) # 2 \/ ~AllDigits(dd) THEN None
             ELSE CalendarDate(y, DigitsValue(mm), DigitsValue(dd))

\* compareAsc on two valid dates
CompareFrom(a, b, i) ==
    LET ka == <<a.y, a.m, a.d, a.t>>
        kb == <<b.y, b.m, b.d, b.t>>
        diff == {j \in i..4 : ka[j] # kb[j]}
    IN  IF diff = {} THEN 0
        ELSE LET j == CHOOSE k \in diff : \A l \in diff : k <= l
             IN  IF ka[j] < kb[j] THEN -1 ELSE 1

compareAsc(a, b) == CompareFrom(a, b, 1)

\* isBefore(date, dateToCompare): a comparison with an Invalid Date is false
isBefore(date, dateToCompare) ==
    IsSome(date) /\ compareAsc(Get(date), dateToCompare) = -1

Abs(n) == IF n < 0 THEN -n ELSE n

\* differenceInYears(dateLeft, dateRight): full years, NaN for an Invalid
\* Date; both dates are moved to the same year to see whether the last
\* year is complete
differenceInYears(dateLeft, dateRight) ==
    IF ~IsSome(dateRight) THEN None
    ELSE LET r == Get(dateRight)
             sign == compareAsc(dateLeft, r)
             difference == Abs(dateLeft.y - r.y)
             isLastYearNotFull == CompareFrom(dateLeft, r, 2) = -sign
         IN  Some(sign * (difference - (IF isLastYearNotFull THEN 1 ELSE 0)))

\* differenceInMonths(dateLeft, dateRight): full months, NaN for an Invalid
\* Date; for days of the month that exist in every month
differenceInMonths(dateLeft, dateRight) ==
    IF ~IsSome(dateLeft) THEN None
    ELSE LET l == Get(dateLeft)
             sign == compareAsc(l, dateRight)
             difference == Abs((l.y - dateRight.y) * 12 + (l.m - dateRight.m))
             isLastMonthNotFull == CompareFrom(l, dateRight, 3) = -sign
         IN  IF difference < 1 THEN Some(0)
             ELSE Some(sign * (difference - (IF isLastMonthNotFull THEN 1 ELSE 0)))

(***************************************************************************)
(* DocumentValidator: string helpers                                       *)
(***************************************************************************)
ToUpperCase(s) ==
    [i \in 1..Len(s) |->
        IF s[i] \in Range(LowerCase) THEN UpperCase[IndexOf(LowerCase, s[i])] ELSE s[i]]

\* str.toUpperCase().replace(/[^A-Z0-9]/g, '')
normalizeString(str) ==
    SelectSeq(ToUpperCase(str), LAMBDA c : IsUpper(c) \/ IsDigit(c))

\* one row of the matrix: cur holds matrix[i][0 .. Len(cur) - 1], prev is
\* matrix[i - 1], ch is str2.charAt(i - 1)
RECURSIVE FillRow(_, _, _, _)
FillRow(str1, ch, prev, cur) ==
    LET j == Len(cur)
    IN  IF j > Len(str1) THEN cur
        ELSE FillRow(str1, ch, prev,
                     Append(cur,
                            IF ch = str1[j] THEN prev[j]
                            ELSE Min(prev[j] + 1, Min(cur[j] + 1, prev[j + 1] + 1))))

\* the outer loop: prev is the finished row matrix[i - 1]
RECURSIVE LevenshteinRows(_, _, _, _)
LevenshteinRows(str1, str2, i, prev) ==
    IF i > Len(str2) \/ Len(prev) = 0 THEN prev[Len(str1) + 1]
    ELSE LevenshteinRows(str1, str2, i + 1, FillRow(str1, str2[i], prev, <<i>>))

levenshteinDistance(str1, str2) ==
    LevenshteinRows(str1, str2, 1, [j \in 1..(Len(str1) + 1) |-> j - 1])

\* calculateSimilarity that divides by the length of its first argument
calculateSimilarity_ByFirstLength(str1, str2) ==
    LET longer == IF Len(str1) > Len(str2) THEN str1 ELSE str2
        shorter == IF Len(str1) > Len(str2) THEN str2 ELSE str1
    IN  IF Len(longer) = 0 THEN [num |-> 1, den |-> 1]
        ELSE [num |-> Len(str1) - levenshteinDistance(longer, shorter),
              den |-> Len(str1)]

\* the similarity is the double num / den, kept as the pair it is computed from
calculateSimilarity(str1, str2) ==
    LET longer == IF Len(str1) > Len(str2) THEN str1 ELSE str2
        shorter == IF Len(str1) > Len(str2) THEN str2 ELSE str1
    IN  IF Len(longer) = 0 THEN [num |-> 1, den |-> 1]
        ELSE [num |-> Len(longer) - levenshteinDistance(longer, shorter),
              den |-> Len(longer)]

\* similarity > a / b for the literals 0.8 = 4 / 5 and 0.6 = 3 / 5: the
\* division is correctly rounded and monotone, and a quotient of string
\* lengths that differs from a / b differs by far more than one rounding
SimilarityAbove(similarity, a, b) == similarity.num * b > a * similarity.den

(***************************************************************************)
(* DocumentValidator.validateDocument.  A ValidationCheck is a record      *)
(* [field, status, message]; a message is the sequence of the pieces of    *)
(* its template (literal text, interpolated characters and numbers).       *)
(***************************************************************************)
Check(field, status, message) ==
    [field |-> field, status |-> status, message |-> message]

\* extractedData.<field>?.value, '' when the field is missing
Value(field) == IF IsSome(field) THEN Get(field).value ELSE <<>>
\* truthiness of a string and of an optional number
Truthy(str) == Len(str) > 0
TruthyNum(n) == IsSome(n) /\ Get(n) # 0

validateDateFormat(date, fieldName) ==
    LET isValid == /\ Len(date) = 10
                   /\ \A i \in 1..10 : IF i \in {5, 8} THEN date[i] = "-"
                                       ELSE IsDigit(date[i])
    IN  Check(fieldName, IF isValid THEN "pass" ELSE "fail",
              IF isValid THEN <<"Date format is valid (ISO 8601)">>
              ELSE <<"Date format is invalid">>)

\* the try block; parseISO and isBefore do not throw, so the catch block
\* ('Unable to parse expiry date') is never entered
validateExpiryDate(expiryDate, today) ==
    LET expiry == parseISO(expiryDate)
        isExpired == isBefore(expiry, today)
    IN  Check("Expiry Date", IF isExpired THEN "fail" ELSE "pass",
              IF isExpired THEN <<"Document has expired">> ELSE <<"Document is valid">>)

calculateAge(dateOfBirth, today) == differenceInYears(today, parseISO(dateOfBirth))

\* lines 161-169: date format validation
DateChecks(ext, today) ==
    (IF Truthy(Value(ext.dateOfBirth))
     THEN <<validateDateFormat(Value(ext.dateOfBirth), "Date of Birth")>>
     ELSE <<>>)
    \o (IF Truthy(Value(ext.expiryDate))
        THEN <<validateDateFormat(Value(ext.expiryDate), "Expiry Date"),
               validateExpiryDate(Value(ext.expiryDate), today)>>
        ELSE <<>>)

\* lines 173-179
MrzChecksumCheck(mrz) ==
    <<Check("MRZ Checksum",
            IF mrz.checksumValid THEN "pass" ELSE "fail",
            IF mrz.checksumValid THEN <<"MRZ checksums are valid">>
            ELSE <<"MRZ checksum validation failed">>)>>

\* DocumentNumberCheck that fails a number that differs from the MRZ
DocumentNumberCheck_FailOnMismatch(ext, mrz) ==
    LET match == normalizeString(Value(ext.documentNumber))
                   = normalizeString(mrz.documentNumber)
    IN  IF Truthy(Value(ext.documentNumber)) /\ Truthy(mrz.documentNumber)
        THEN <<Check("Document Number",
                     IF match THEN "pass" ELSE "fail",
                     IF match THEN <<"Document number matches MRZ">>
                     ELSE <<"Document number differs from MRZ">>)>>
        ELSE <<>>

\* lines 181-192
DocumentNumberCheck(ext, mrz) ==
    LET match == normalizeString(Value(ext.documentNumber))
                   = normalizeString(mrz.documentNumber)
    IN  IF Truthy(Value(ext.documentNumber)) /\ Truthy(mrz.documentNumber)
        THEN <<Check("Document Number",
                     IF match THEN "pass" ELSE "warning",
                     IF match THEN <<"Document number matches MRZ">>
                     ELSE <<"Document number differs from MRZ">>)>>
        ELSE <<>>

\* NameCheck that passes a similarity of exactly 0.8
NameCheck_PassAtThreshold(ext, mrz) ==
    LET extractedName == normalizeString(Value(ext.fullName))
        mrzName == normalizeString(mrz.givenNames \o <<" ">> \o mrz.surname)
        similarity == calculateSimilarity(extractedName, mrzName)
    IN  IF Truthy(Value(ext.fullName))
        THEN <<Check("Name",
                     IF similarity.num * 5 >= 4 * similarity.den THEN "pass"
                     ELSE IF SimilarityAbove(similarity, 3, 5) THEN "warning"
                     ELSE "fail",
                     <<"Name similarity: ",
                       ToString(RoundedPercent(similarity.num, similarity.den)),
                       "%">>)>>
        ELSE <<>>

\* lines 194-204
NameCheck(ext, mrz) ==
    LET extractedName == normalizeString(Value(ext.fullName))
        mrzName == normalizeString(mrz.givenNames \o <<" ">> \o mrz.surname)
        similarity == calculateSimilarity(extractedName, mrzName)
    IN  IF Truthy(Value(ext.fullName))
        THEN <<Check("Name",
                     IF SimilarityAbove(similarity, 4, 5) THEN "pass"
                     ELSE IF SimilarityAbove(similarity, 3, 5) THEN "warning"
                     ELSE "fail",
                     <<"Name similarity: ",
                       ToString(RoundedPercent(similarity.num, similarity.den)),
                       "%">>)>>
        ELSE <<>>

\* MrzChecks that stops after a failed checksum
MrzChecks_StopOnInvalid(ext, mrzOpt) ==
    IF ~IsSome(mrzOpt) THEN <<>>
    ELSE IF ~Get(mrzOpt).checksumValid THEN MrzChecksumCheck(Get(mrzOpt))
    ELSE MrzChecksumCheck(Get(mrzOpt))
         \o DocumentNumberCheck(ext, Get(mrzOpt))
         \o NameCheck(ext, Get(mrzOpt))

\* lines 171-205: MRZ validation and cross-checks
MrzChecks(ext, mrzOpt) ==
    IF ~IsSome(mrzOpt) THEN <<>>
    ELSE MrzChecksumCheck(Get(mrzOpt))
         \o DocumentNumberCheck(ext, Get(mrzOpt))
         \o NameCheck(ext, Get(mrzOpt))

\* lines 207-229: applicant form validation
FormChecks(ext, formOpt) ==
    IF ~IsSome(formOpt) THEN <<>>
    ELSE LET form == Get(formOpt)
             docMatch == normalizeString(form.passportNumber)
                           = normalizeString(Value(ext.documentNumber))
             dobMatch == form.dateOfBirth = Value(ext.dateOfBirth)
         IN  (IF Truthy(Value(ext.documentNumber))
              THEN <<Check("Passport Number Match",
                           IF docMatch THEN "pass" ELSE "fail",
                           IF docMatch THEN <<"Passport number matches application">>
                           ELSE <<"Passport number does not match application">>)>>
              ELSE <<>>)
             \o (IF Truthy(Value(ext.dateOfBirth))
                 THEN <<Check("Date of Birth Match",
                              IF dobMatch THEN "pass" ELSE "fail",
                              IF dobMatch THEN <<"Date of birth matches application">>
                              ELSE <<"Date of birth does not match application">>)>>
                 ELSE <<>>)

\* lines 231-248: age bounds; a comparison with a NaN age is false
AgeChecks(ext, pol, today) ==
    IF ~Truthy(Value(ext.dateOfBirth)) THEN <<>>
    ELSE LET age == calculateAge(Value(ext.dateOfBirth), today)
         IN  (IF TruthyNum(pol.minAge) /\ IsSome(age) /\ Get(age) < Get(pol.minAge)
              THEN <<Check("Age Requirement", "fail",
                           <<"Applicant is ", ToString(Get(age)),
                             " years old, minimum age is ", ToString(Get(pol.minAge))>>)>>
              ELSE <<>>)
             \o (IF TruthyNum(pol.maxAge) /\ IsSome(age) /\ Get(age) > Get(pol.maxAge)
                 THEN <<Check("Age Requirement", "fail",
                              <<"Applicant is ", ToString(Get(age)),
                                " years old, maximum age is ", ToString(Get(pol.maxAge))>>)>>
                 ELSE <<>>)

\* lines 250-266: allowed and blocked nationalities
NationalityChecks(ext, pol) ==
    LET nationality == Value(ext.nationality)
    IN  IF ~Truthy(nationality) THEN <<>>
        ELSE (IF IsSome(pol.allowedNationalities)
                 /\ nationality \notin Range(Get(pol.allowedNationalities))
              THEN <<Check("Nationality", "fail",
                           <<"Nationality ">> \o nationality
                              \o <<" is not in allowed list">>)>>
              ELSE <<>>)
             \o (IF IsSome(pol.blockedNationalities)
                    /\ nationality \in Range(Get(pol.blockedNationalities))
                 THEN <<Check("Nationality", "fail",
                              <<"Nationality ">> \o nationality \o <<" is blocked">>)>>
                 ELSE <<>>)

\* lines 268-280: minimum remaining passport validity
ValidityChecks(ext, pol, today) ==
    IF ~(TruthyNum(pol.minPassportValidity) /\ Truthy(Value(ext.expiryDate))) THEN <<>>
    ELSE LET monthsValid == differenceInMonths(parseISO(Value(ext.expiryDate)), today)
         IN  IF IsSome(monthsValid) /\ Get(monthsValid) < Get(pol.minPassportValidity)
             THEN <<Check("Passport Validity", "fail",
                          <<"Passport valid for ", ToString(Get(monthsValid)),
                            " months, requires ", ToString(Get(pol.minPassportValidity)),
                            " months">>)>>
             ELSE <<>>

PolicyChecks(ext, polOpt, today) ==
    IF ~IsSome(polOpt) THEN <<>>
    ELSE AgeChecks(ext, Get(polOpt), today)
         \o NationalityChecks(ext, Get(polOpt))
         \o ValidityChecks(ext, Get(polOpt), today)

validateDocument(ext, mrzOpt, formOpt, polOpt, today) ==
    DateChecks(ext, today)
    \o MrzChecks(ext, mrzOpt)
    \o FormChecks(ext, formOpt)
    \o PolicyChecks(ext, polOpt, today)

(***************************************************************************)
(* DocumentValidator.assessEligibility and generateRecommendations         *)
(***************************************************************************)
WithStatus(list, status) == SelectSeq(list, LAMBDA c : c.status = status)

\* Eligible that tolerates one failed check
Eligible_OneAllowed(failedChecks) == Len(failedChecks) <= 1

\* line 294
Eligible(failedChecks) == Len(failedChecks) = 0

\* lines 295-298: (passed + warnings * 0.5) is exact, the division and the
\* multiplication by 100 each round to a double
Confidence(passedCount, warningCount, length) ==
    LET totalChecks == IF length # 0 THEN length ELSE 1
    IN  RoundedPercent(2 * passedCount + warningCount, 2 * totalChecks)

\* Reasons with the warnings listed before the failures
Reasons_WarningsFirst(failedChecks, warningChecks, passedChecks, eligible) ==
    [i \in 1..Len(warningChecks) |->
        <<"Warning - ", warningChecks[i].field, ": ">> \o warningChecks[i].message]
    \o [i \in 1..Len(failedChecks) |->
        <<failedChecks[i].field, ": ">> \o failedChecks[i].message]
    \o (IF eligible /\ Len(passedChecks) > 0
        THEN << <<"All validation checks passed">> >>
        ELSE <<>>)

\* lines 300-312
Reasons(failedChecks, warningChecks, passedChecks, eligible) ==
    [i \in 1..Len(failedChecks) |->
        <<failedChecks[i].field, ": ">> \o failedChecks[i].message]
    \o [i \in 1..Len(warningChecks) |->
        <<"Warning - ", warningChecks[i].field, ": ">> \o warningChecks[i].message]
    \o (IF eligible /\ Len(passedChecks) > 0
        THEN << <<"All validation checks passed">> >>
        ELSE <<>>)

\* assessEligibility that wants at least one check for an eligible result
assessEligibility_NeedsChecks(list) ==
    LET failedChecks == WithStatus(list, "fail")
        warningChecks == WithStatus(list, "warning")
        passedChecks == WithStatus(list, "pass")
        eligible == Eligible(failedChecks) /\ Len(list) > 0
    IN  [eligible |-> eligible,
         confidence |-> Confidence(Len(passedChecks), Len(warningChecks), Len(list)),
         reasons |-> Reasons(failedChecks, warningChecks, passedChecks, eligible)]

assessEligibility(list) ==
    LET failedChecks == WithStatus(list, "fail")
        warningChecks == WithStatus(list, "warning")
        passedChecks == WithStatus(list, "pass")
        eligible == Eligible(failedChecks)
    IN  [eligible |-> eligible,
         confidence |-> Confidence(Len(passedChecks), Len(warningChecks), Len(list)),
         reasons |-> Reasons(failedChecks, warningChecks, passedChecks, eligible)]

\* generateRecommendations that asks for a review only when both
\* confidences are below 80
generateRecommendations_BothLow(list, elig, overall) ==
    IF ~elig.eligible
    THEN LET failedChecks == WithStatus(list, "fail")
         IN  << <<"REJECT APPLICATION: Critical validation failures detected">> >>
             \o [i \in 1..Len(failedChecks) |->
                    <<"- Address issue: ", failedChecks[i].field>>]
    ELSE IF overall < 60
    THEN << <<"MANUAL REVIEW REQUIRED: Low confidence in document extraction">>,
            <<"Request higher quality document images">> >>
    ELSE IF overall < 80 /\ elig.confidence < 80
    THEN << <<"MANUAL REVIEW RECOMMENDED: Moderate confidence level">> >>
         \o (IF Len(WithStatus(list, "warning")) > 0
             THEN << <<"Verify discrepancies manually">> >>
             ELSE <<>>)
    ELSE << <<"APPROVE: All checks passed with high confidence">>,
            <<"Proceed with visa processing">> >>

generateRecommendations(list, elig, overall) ==
    IF ~elig.eligible
    THEN LET failedChecks == WithStatus(list, "fail")
         IN  << <<"REJECT APPLICATION: Critical validation failures detected">> >>
             \o [i \in 1..Len(failedChecks) |->
                    <<"- Address issue: ", failedChecks[i].field>>]
    ELSE IF overall < 60
    THEN << <<"MANUAL REVIEW REQUIRED: Low confidence in document extraction">>,
            <<"Request higher quality document images">> >>
    ELSE IF overall < 80 \/ elig.confidence < 80
    THEN << <<"MANUAL REVIEW RECOMMENDED: Moderate confidence level">> >>
         \o (IF Len(WithStatus(list, "warning")) > 0
             THEN << <<"Verify discrepancies manually">> >>
             ELSE <<>>)
    ELSE << <<"APPROVE: All checks passed with high confidence">>,
            <<"Proceed with visa processing">> >>

(***************************************************************************)
(* route.ts: extractDocumentFields.  A regular expression is read as the   *)
(* backtracking matcher reads it: the match starts at the leftmost         *)
(* position where some way through the pattern succeeds, and at that       *)
(* position the ways are tried in the order of the alternatives, a greedy  *)
(* quantifier taking the most first.  For a start position, CaptureStarts  *)
(* lists in that order where the capture group may begin, and the capture  *)
(* operator gives the length the group takes there, 0 when it fails.       *)
(***************************************************************************)
\* the character at position i, '' outside the text
At(t, i) == IF i >= 1 /\ i <= Len(t) THEN t[i] ELSE ""

\* the i flag: characters are compared without regard to case
Fold(c) == IF c \in Range(UpperCase) THEN LowerCase[IndexOf(UpperCase, c)] ELSE c

\* the character classes [A-Za-z] (which is [A-Z] under the i flag), [A-Z]
\* and \d; \s is WhiteSpace
Letters == Range(UpperCase) \cup Range(LowerCase)
Capitals == Range(UpperCase)
Numerals == Range(Digits)
\* \w, the characters that \b tells apart from the others
IsWordChar(c) == c \in Letters \cup Numerals \cup {"_"}

\* the literal word (in lower case) stands at position i
WordAt(t, i, word) ==
    /\ i + Len(word) - 1 <= Len(t)
    /\ \A k \in 1..Len(word) : Fold(t[i + k - 1]) = word[k]

\* the position after the literal among words that stands at i, 0 when none
\* does (for alternatives of which no two match at the same position)
AfterWord(t, i, words) ==
    LET hits == {w \in words : WordAt(t, i, w)}
    IN  IF hits = {} THEN 0 ELSE i + Len(CHOOSE w \in hits : TRUE)

\* the number of characters of a class from position i on
RunLength(t, i, class) ==
    MinOf({j \in i..(Len(t) + 1) : At(t, j) \notin class}) - i

\* \s*, which gives nothing back since what follows it never starts with
\* white space
SkipSpace(t, i) == i + RunLength(t, i, WhiteSpace)

\* \s*:?\s*
Separator(t, i) ==
    LET p == SkipSpace(t, i)
    IN  SkipSpace(t, IF At(t, p) = ":" THEN p + 1 ELSE p)

\* String.prototype.match without the g flag: the capture group of the
\* first match, the empty option when the pattern matches nowhere
FirstMatch(t, starts, capture) ==
    LET Ways(i) == {n \in 1..Len(starts[i]) : capture[starts[i][n]] > 0}
        matching == {i \in 1..Len(t) : Ways(i) # {}}
    IN  IF matching = {} THEN None
        ELSE LET i == MinOf(matching)
                 q == starts[i][MinOf(Ways(i))]
             IN  Some(SubSeq(t, q, q + capture[q] - 1))

\* /(?:passport|document)\s*(?:no|number|#)?\s*:?\s*([A-Z0-9]{6,12})/i
PassportLabelled(t) ==
    LET CaptureStarts(i) ==
            LET k == AfterWord(t, i, {<<"p", "a", "s", "s", "p", "o", "r", "t">>,
                                      <<"d", "o", "c", "u", "m", "e", "n", "t">>})
                After(word) ==
                    LET q == AfterWord(t, SkipSpace(t, k), {word})
                    IN  IF q = 0 THEN <<>> ELSE <<Separator(t, q)>>
            IN  IF k = 0 THEN <<>>
                ELSE After(<<"n", "o">>) \o After(<<"n", "u", "m", "b", "e", "r">>)
                     \o After(<<"#">>) \o <<Separator(t, k)>>
        Capture(q) ==
            LET r == Min(RunLength(t, q, Letters \cup Numerals), 12)
            IN  IF r >= 6 THEN r ELSE 0
    IN  FirstMatch(t, [i \in 1..Len(t) |-> CaptureStarts(i)],
                   [q \in 1..(Len(t) + 1) |-> Capture(q)])

\* /\b([A-Z]{1,2}\d{7,9})\b/
PassportShaped(t) ==
    LET CaptureStarts(i) == IF IsWordChar(At(t, i - 1)) THEN <<>> ELSE <<i>>
        Capture(q) ==
            LET letters == IF At(t, q) \in Capitals /\ At(t, q + 1) \in Capitals THEN 2
                           ELSE IF At(t, q) \in Capitals THEN 1 ELSE 0
                digits == RunLength(t, q + letters, Numerals)
            IN  IF letters > 0 /\ digits \in 7..9
                   /\ ~IsWordChar(At(t, q + letters + digits))
                THEN letters + digits ELSE 0
    IN  FirstMatch(t, [i \in 1..Len(t) |-> CaptureStarts(i)],
                   [q \in 1..(Len(t) + 1) |-> Capture(q)])

\* /(?:name|surname|given\s*names?)\s*:?\s*([A-Z][A-Z\s]{2,40})/i
NameLabelled(t) ==
    LET CaptureStarts(i) ==
            LET k == AfterWord(t, i, {<<"n", "a", "m", "e">>,
                                      <<"s", "u", "r", "n", "a", "m", "e">>})
                g == AfterWord(t, i, {<<"g", "i", "v", "e", "n">>})
                n == IF g = 0 THEN 0
                     ELSE AfterWord(t, SkipSpace(t, g), {<<"n", "a", "m", "e">>})
            IN  IF k # 0 THEN <<Separator(t, k)>>
                ELSE IF n = 0 THEN <<>>
                ELSE (IF Fold(At(t, n)) = "s" THEN <<Separator(t, n + 1)>> ELSE <<>>)
                     \o <<Separator(t, n)>>
        Capture(q) ==
            LET r == Min(RunLength(t, q + 1, Letters \cup WhiteSpace), 40)
            IN  IF At(t, q) \in Letters /\ r >= 2 THEN 1 + r ELSE 0
    IN  FirstMatch(t, [i \in 1..Len(t) |-> CaptureStarts(i)],
                   [q \in 1..(Len(t) + 1) |-> Capture(q)])

\* /([A-Z]{2,})\s+([A-Z]{2,}(?:\s+[A-Z]{2,})?)/, of which match[1] is used
NameShaped(t) ==
    LET CaptureStarts(i) == <<i>>
        Capture(q) ==
            LET first == RunLength(t, q, Capitals)
                gap == RunLength(t, q + first, WhiteSpace)
            IN  IF first >= 2 /\ gap >= 1
                   /\ RunLength(t, q + first + gap, Capitals) >= 2
                THEN first ELSE 0
    IN  FirstMatch(t, [i \in 1..Len(t) |-> CaptureStarts(i)],
                   [q \in 1..(Len(t) + 1) |-> Capture(q)])

\* (\d{4}-\d{2}-\d{2}) at position q
ISODateAt(t, q) ==
    IF \A k \in 0..9 : IF k \in {4, 7} THEN At(t, q + k) = "-"
                       ELSE At(t, q + k) \in Numerals
    THEN 10 ELSE 0

\* (\d{2}[\/\-]\d{2}[\/\-]\d{4}) at position q
DayFirstDateAt(t, q) ==
    IF \A k \in 0..9 : IF k \in {2, 5} THEN At(t, q + k) \in {"/", "-"}
                       ELSE At(t, q + k) \in Numerals
    THEN 10 ELSE 0

\* /(?:<labels>)\s*:?\s*(<date>)/i for the two date shapes
DateLabelled(t, label, shape) ==
    LET CaptureStarts(i) == IF label[i] = 0 THEN <<>> ELSE <<Separator(t, label[i])>>
        Capture(q) == IF shape = "ISO" THEN ISODateAt(t, q) ELSE DayFirstDateAt(t, q)
    IN  FirstMatch(t, [i \in 1..Len(t) |-> CaptureStarts(i)],
                   [q \in 1..(Len(t) + 1) |-> Capture(q)])

\* /(?:nationality|citizen)\s*:?\s*([A-Z]{2,3}|[A-Z][a-z]{2,20})/i: with
\* the i flag the first alternative takes two or three letters of either
\* case whenever the second could match
NationalityLabelled(t) ==
    LET CaptureStarts(i) ==
            LET k == AfterWord(t, i, {<<"n", "a", "t", "i", "o", "n", "a", "l", "i", "t", "y">>,
                                      <<"c", "i", "t", "i", "z", "e", "n">>})
            IN  IF k = 0 THEN <<>> ELSE <<Separator(t, k)>>
        Capture(q) ==
            LET r == RunLength(t, q, Letters)
            IN  IF r >= 2 THEN Min(r, 3) ELSE 0
    IN  FirstMatch(t, [i \in 1..Len(t) |-> CaptureStarts(i)],
                   [q \in 1..(Len(t) + 1) |-> Capture(q)])

\* /(?:sex|gender)\s*:?\s*([MF])/i
SexLabelled(t) ==
    LET CaptureStarts(i) ==
            LET k == AfterWord(t, i, {<<"s", "e", "x">>, <<"g", "e", "n", "d", "e", "r">>})
            IN  IF k = 0 THEN <<>> ELSE <<Separator(t, k)>>
        Capture(q) == IF Fold(At(t, q)) \in {"m", "f"} THEN 1 ELSE 0
    IN  FirstMatch(t, [i \in 1..Len(t) |-> CaptureStarts(i)],
                   [q \in 1..(Len(t) + 1) |-> Capture(q)])

\* normalizeDate: an ISO date as it is, DD/MM/YYYY or DD-MM-YYYY turned round
normalizeDate(dateStr) ==
    IF Len(dateStr) = 10 /\ ISODateAt(dateStr, 1) = 10 THEN dateStr
    ELSE LET starts == {i \in 1..Len(dateStr) : DayFirstDateAt(dateStr, i) = 10}
         IN  IF starts = {} THEN dateStr
             ELSE LET i == MinOf(starts)
                  IN  SubSeq(dateStr, i + 6, i + 9) \o <<"-">>
                      \o SubSeq(dateStr, i + 3, i + 4) \o <<"-">>
                      \o SubSeq(dateStr, i, i + 1)

\* a field of the result when its pattern list matched
FieldOf(match, confidence) ==
    IF IsSome(match) THEN Some([value |-> Get(match), confidence |-> confidence]) ELSE None

extractDocumentFields(t) ==
    LET \* the first pattern of a list that matches
        FirstOf(matches) ==
            LET found == {n \in 1..Len(matches) : IsSome(matches[n])}
            IN  IF found = {} THEN None ELSE matches[MinOf(found)]
        \* (?:birth|born|dob)
        BirthLabel(i) ==
            AfterWord(t, i, {<<"b", "i", "r", "t", "h">>, <<"b", "o", "r", "n">>,
                             <<"d", "o", "b">>})
        \* (?:expiry|expires|valid\s*until)
        ExpiryLabel(i) ==
            LET k == AfterWord(t, i, {<<"e", "x", "p", "i", "r", "y">>,
                                      <<"e", "x", "p", "i", "r", "e", "s">>})
                v == AfterWord(t, i, {<<"v", "a", "l", "i", "d">>})
            IN  IF k # 0 THEN k
                ELSE IF v = 0 THEN 0
                ELSE AfterWord(t, SkipSpace(t, v), {<<"u", "n", "t", "i", "l">>})
        number == FirstOf(<<PassportLabelled(t), PassportShaped(t)>>)
        name == FirstOf(<<NameLabelled(t), NameShaped(t)>>)
        birthLabels == [i \in 1..Len(t) |-> BirthLabel(i)]
        expiryLabels == [i \in 1..Len(t) |-> ExpiryLabel(i)]
        birth == FirstOf(<<DateLabelled(t, birthLabels, "ISO"),
                           DateLabelled(t, birthLabels, "DD/MM/YYYY")>>)
        expiry == FirstOf(<<DateLabelled(t, expiryLabels, "ISO"),
                            DateLabelled(t, expiryLabels, "DD/MM/YYYY")>>)
        nationality == NationalityLabelled(t)
        sex == SexLabelled(t)
    IN  [documentNumber |-> FieldOf(IF IsSome(number) THEN Some(ToUpperCase(Get(number))) ELSE None, 75),
         fullName |-> FieldOf(IF IsSome(name) THEN Some(Trim(Get(name))) ELSE None, 70),
         dateOfBirth |-> FieldOf(IF IsSome(birth) THEN Some(normalizeDate(Get(birth))) ELSE None, 70),
         expiryDate |-> FieldOf(IF IsSome(expiry) THEN Some(normalizeDate(Get(expiry))) ELSE None, 70),
         nationality |-> FieldOf(IF IsSome(nationality) THEN Some(ToUpperCase(Get(nationality))) ELSE None, 70),
         sex |-> FieldOf(IF IsSome(sex) THEN Some(ToUpperCase(Get(sex))) ELSE None, 80)]

(***************************************************************************)
(* route.ts: the POST handler                                              *)
(***************************************************************************)
\* EnrichWithMRZ that lets the MRZ replace what the free text gave
EnrichWithMRZ_MRZFirst(fields, mrzOpt) ==
    IF ~IsSome(mrzOpt) THEN fields
    ELSE LET mrz == Get(mrzOpt)
             FromMRZ(field, value) == IF Truthy(value) THEN FieldOf(Some(value), 90) ELSE field
         IN  [documentNumber |-> FromMRZ(fields.documentNumber, mrz.documentNumber),
              fullName |-> FieldOf(Some(Trim(mrz.givenNames \o <<" ">> \o mrz.surname)), 90),
              dateOfBirth |-> FromMRZ(fields.dateOfBirth, mrz.dateOfBirth),
              expiryDate |-> FromMRZ(fields.expiryDate, mrz.expiryDate),
              nationality |-> FromMRZ(fields.nationality, mrz.nationality),
              sex |-> FromMRZ(fields.sex, mrz.sex)]

\* lines 43-81: a field the free text did not give is taken from the MRZ,
\* fullName always, the others when the MRZ value is not empty
EnrichWithMRZ(fields, mrzOpt) ==
    IF ~IsSome(mrzOpt) THEN fields
    ELSE LET mrz == Get(mrzOpt)
             FromMRZ(field, value) ==
                 IF ~IsSome(field) /\ Truthy(value) THEN FieldOf(Some(value), 90) ELSE field
         IN  [documentNumber |-> FromMRZ(fields.documentNumber, mrz.documentNumber),
              fullName |-> IF ~IsSome(fields.fullName)
                           THEN FieldOf(Some(Trim(mrz.givenNames \o <<" ">> \o mrz.surname)), 90)
                           ELSE fields.fullName,
              dateOfBirth |-> FromMRZ(fields.dateOfBirth, mrz.dateOfBirth),
              expiryDate |-> FromMRZ(fields.expiryDate, mrz.expiryDate),
              nationality |-> FromMRZ(fields.nationality, mrz.nationality),
              sex |-> FromMRZ(fields.sex, mrz.sex)]

RECURSIVE SumOf(_, _)
SumOf(f, S) ==
    IF S = {} THEN 0
    ELSE LET x == CHOOSE y \in S : TRUE IN f[x] + SumOf(f, S \ {x})

\* lines 94-103: the rounded mean of the fields' confidences, the rounded
\* OCR confidence (given in hundredths) when there is no field
OverallConfidence(fields, confidence) ==
    LET present == {name \in DOMAIN fields : IsSome(fields[name])}
        sum == SumOf([name \in present |-> Get(fields[name]).confidence], present)
    IN  IF Cardinality(present) > 0
        THEN MathRound(FloatDiv(sum, Cardinality(present)))
        ELSE (confidence + 50) \div 100

determineDocumentType(t, mrzOpt) ==
    LET \* textLower.includes(word), for a word in lower case
        Includes(word) == \E i \in 1..Len(t) : WordAt(t, i, word)
        docType == IF IsSome(mrzOpt) THEN Get(mrzOpt).documentType ELSE <<>>
    IN  IF At(docType, 1) = "P" THEN "Passport"
        ELSE IF At(docType, 1) = "I" THEN "ID Card"
        ELSE IF At(docType, 1) = "V" THEN "Visa"
        ELSE IF Includes(<<"p", "a", "s", "s", "p", "o", "r", "t">>) THEN "Passport"
        ELSE IF Includes(<<"v", "i", "s", "a">>) THEN "Visa"
        ELSE IF Includes(<<"i", "d", "e", "n", "t", "i", "t", "y">>)
                \/ Includes(<<"n", "a", "t", "i", "o", "n", "a", "l", " ", "i", "d">>)
             THEN "National ID"
        ELSE IF Includes(<<"d", "r", "i", "v", "i", "n", "g">>)
                \/ Includes(<<"d", "r", "i", "v", "e", "r">>)
                \/ Includes(<<"l", "i", "c", "e", "n", "c", "e">>)
             THEN "Driving Licence"
        ELSE "Unknown Document"

\* the summary as the pieces of its template
generateSummary(documentType, elig, overall, ext) ==
    LET \* x || 'Unknown'
        OrUnknown(str) == IF Truthy(str) THEN str ELSE <<"Unknown">>
        name == OrUnknown(Value(ext.fullName))
        docNum == OrUnknown(Value(ext.documentNumber))
        nationality == OrUnknown(Value(ext.nationality))
        status == IF elig.eligible THEN "ELIGIBLE" ELSE "NOT ELIGIBLE"
        confidenceLevel == IF overall >= 80 THEN "HIGH"
                           ELSE IF overall >= 60 THEN "MODERATE" ELSE "LOW"
        failed == Cardinality({i \in 1..Len(elig.reasons) :
                                  elig.reasons[i][1] # "Warning - "})
    IN  <<"Document verification complete for ", documentType, " #">> \o docNum
        \o <<" (">> \o name \o <<", ">> \o nationality
        \o <<"). Status: ", status, " with ", confidenceLevel, " confidence (",
             ToString(overall), "%). ">>
        \o (IF elig.eligible THEN <<"All validation checks passed.">>
            ELSE <<"Failed checks: ", ToString(failed), ".">>)
        \o <<" ", IF overall < 80 THEN "Manual review recommended." ELSE "">>

\* the status of the response: 400 without an image, 500 when the OCR or
\* JSON.parse throws, 200 otherwise
StatusOf(req) ==
    IF req.image = "none" THEN 400
    ELSE IF req.image = "unreadable" \/ ~req.wellFormed THEN 500
    ELSE 200

(***************************************************************************)
(* Inputs.  The TD3 lines are the ICAO 9303 specimen; the others vary it.  *)
(***************************************************************************)
TD3Line1 ==
    <<"P", "<", "U", "T", "O", "E", "R", "I", "K", "S", "S", "O", "N", "<",
      "<", "A", "N", "N", "A", "<", "M", "A", "R", "I", "A", "<", "<", "<",
      "<", "<", "<", "<", "<", "<", "<", "<", "<", "<", "<", "<", "<", "<",
      "<", "<">>

TD3Line2 ==
    <<"L", "8", "9", "8", "9", "0", "2", "C", "3", "6", "U", "T", "O", "7",
      "4", "0", "8", "1", "2", "2", "F", "1", "2", "0", "4", "1", "5", "9",
      "Z", "E", "1", "8", "4", "2", "2", "6", "B", "<", "<", "<", "<", "<",
      "1", "0">>

\* the specimen with one wrong check digit: document number, birth, expiry
ReplaceAt(s, i, c) == [s EXCEPT ![i] = c]
TD3Line2BadBirth == ReplaceAt(TD3Line2, 20, "3")

TD1Line1 ==
    <<"I", "<", "U", "T", "O", "D", "2", "3", "1", "4", "5", "8", "9", "0",
      "7", "<", "<", "<", "<", "<", "<", "<", "<", "<", "<", "<", "<", "<",
      "<", "<">>

TD1Line2 ==
    <<"7", "4", "0", "8", "1", "2", "2", "F", "1", "2", "0", "4", "1", "5",
      "9", "U", "T", "O", "<", "<", "<", "<", "<", "<", "<", "<", "<", "<",
      "<", "6">>

TD1Line3 ==
    <<"E", "R", "I", "K", "S", "S", "O", "N", "<", "<", "A", "N", "N", "A",
      "<", "M", "A", "R", "I", "A", "<", "<", "<", "<", "<", "<", "<", "<",
      "<", "<">>

LineLists ==
    LET SampleLines ==
            LET TD3Line2BadNumber == ReplaceAt(TD3Line2, 10, "7")
                TD3Line2BadExpiry == ReplaceAt(TD3Line2, 28, "0")
                \* a second '<<' inside the given names
                TD3Line1TwoNames ==
                    <<"P", "<", "U", "T", "O", "E", "R", "I", "K", "S", "S", "O", "N", "<",
                      "<", "A", "N", "N", "A", "<", "<", "M", "A", "R", "I", "A", "<", "<",
                      "<", "<", "<", "<", "<", "<", "<", "<", "<", "<", "<", "<", "<", "<",
                      "<", "<">>
                \* the specimen as OCR may return it, with characters that are stripped
                TD3Line1Noisy ==
                    <<" ", "p", "P", "<", "U", "T", "O", "E", "R", "I", "K", "S", "S", "O",
                      "N", "<", "<", "A", "N", "N", "A", "<", "-", "M", "A", "R", "I", "A",
                      "<", "<", "<", "<", "<", "<", "<", "<", "<", "<", "<", "<", "<", "<",
                      "<", "<", "<", "<", "<", " ">>
                TD1Line2Short == SubSeq(TD1Line2, 1, 29)
                TD1Line3Long == Append(TD1Line3, "<")
                TD3Line2Short == SubSeq(TD3Line2, 1, 43)
            IN
            {TD3Line1, TD3Line2, TD3Line2BadNumber, TD3Line2BadBirth, TD3Line2BadExpiry,
             TD3Line1TwoNames, TD3Line1Noisy, TD1Line1, TD1Line2, TD1Line3,
             TD1Line2Short, TD1Line3Long, TD3Line2Short}
    IN
             SeqsUpTo(SampleLines, MaxLines)

\* TD3 second lines put together from their fields: document number [0:9]
\* and its check digit [9], birth date [13:19] and [19], expiry date [21:27]
\* and [27]; nationality, sex and the optional data are the specimen's
MakeLine2(number, c1, birth, c2, expiry, c3) ==
    number \o <<c1>> \o SubSeq(TD3Line2, 11, 13) \o birth \o <<c2>>
    \o SubSeq(TD3Line2, 21, 21) \o expiry \o <<c3>> \o SubSeq(TD3Line2, 29, 44)

\* TD3 first lines: the name block [5:44] padded with filler
NameLine(block) == SubSeq(TD3Line1, 1, 5) \o block \o Rep(Filler, 39 - Len(block))

TD3Pairs ==
    LET \* a full number, one padded with filler, and an empty one
        TD3NumberFields ==
            {<<"L", "8", "9", "8", "9", "0", "2", "C", "3">>,
             <<"A", "B", "1", "2", "<", "<", "<", "<", "<">>,
             Rep(Filler, 9)}
        \* date fields as printed, and as OCR may return them with a filler inside
        TD3BirthFields ==
            {<<"7", "4", "0", "8", "1", "2">>,
             <<"7", "<", "0", "8", "1", "2">>,
             <<"<", "<", "0", "8", "1", "2">>}
        TD3ExpiryFields ==
            {<<"1", "2", "0", "4", "1", "5">>,
             <<"3", "1", "0", "4", "1", "5">>}
        SixDigitDates ==
            LET \* every two-digit year with a few month and day digits
                TwoDigits(n) == <<Digits[(n \div 10) + 1], Digits[(n % 10) + 1]>>
                MonthDays ==
                    {<<"0", "1", "0", "1">>, <<"0", "8", "1", "2">>, <<"1", "2", "3", "1">>,
                     <<"0", "0", "0", "0">>, <<"9", "9", "9", "9">>}
            IN
                         {TwoDigits(yy) \o md : yy \in 0..99, md \in MonthDays}
        TD3NameBlocks ==
            {<<"E", "R", "I", "K", "S", "S", "O", "N", "<", "<", "A", "N", "N", "A", "<", "M", "A", "R", "I", "A">>,
             <<"E", "R", "I", "K", "S", "S", "O", "N", "<", "<", "A", "N", "N", "A", "<", "<", "M", "A", "R", "I", "A">>,
             <<"E", "R", "I", "K", "S", "S", "O", "N", "<", "<", "<", "A", "N", "N", "A">>,
             <<"V", "A", "N", "<", "D", "E", "R", "<", "B", "E", "R", "G", "<", "<", "J", "A", "N", "<", "<", "<", "P", "I", "E", "T">>,
             <<"<", "<", "A", "N", "N", "A">>,
             <<"E", "R", "I", "K", "S", "S", "O", "N">>,
             <<"E", "R", "I", "K", "S", "S", "O", "N", "<", "A", "N", "N", "A">>,
             [i \in 1..39 |-> IF i % 2 = 1 THEN "A" ELSE Filler],
             <<>>}
    IN
    {<<NameLine(block), TD3Line2>> : block \in TD3NameBlocks}
    \cup {<<TD3Line1, MakeLine2(number, c1, birth, c2, expiry, c3)>> :
             number \in TD3NumberFields, c1 \in Range(Digits),
             birth \in TD3BirthFields, c2 \in Range(Digits),
             expiry \in TD3ExpiryFields, c3 \in Range(Digits)}
    \cup {<<TD3Line1, MakeLine2(SubSeq(TD3Line2, 1, 9), "6", date, "2",
                               SubSeq(TD3Line2, 22, 27), "9")>> :
             date \in SixDigitDates}

RECURSIVE Join(_, _)
Join(lines, sep) ==
    IF Len(lines) = 0 THEN <<>>
    ELSE IF Len(lines) = 1 THEN lines[1]
    ELSE lines[1] \o sep \o Join(Tail(lines), sep)

Texts ==
    LET \* lines of OCR text: MRZ lines at the length limits, with whitespace around
        \* and inside, and lines that do not qualify
        TextLines ==
            {TD3Line1, TD3Line2, TD1Line1,
             <<" ", "\t">> \o TD1Line2 \o <<" ">>,
             SubSeq(TD1Line3, 1, 15) \o <<" ", " ">> \o SubSeq(TD1Line3, 16, 30),
             Rep("<", 27), Rep("A", 28), Rep("9", 45),
             SubSeq(TD1Line1, 1, 29) \o <<"a">>,
             <<"N", "o", ".", " ", "L", "8", "9", "8", "9", "0", "2", "C", "3">>,
             <<>>}
    IN
         {Join(ls, <<"\n">>) : ls \in SeqsUpTo(TextLines, MaxTextLines)}

MRZChars == Range(Digits) \cup Range(UpperCase) \cup {Filler}
DataStrings ==
    LET \* data strings for validateChecksum: every single character, and every
        \* string up to MaxDataLen over digits, letters and the filler
        DataChars == {"0", "3", "9", "A", "K", "Z", Filler}
    IN
               SeqsUpTo(DataChars, MaxDataLen) \cup {<<c>> : c \in MRZChars}

CheckLists ==
    LET \* ValidationChecks for assessEligibility: every list up to MaxChecks over
        \* SampleChecks, and for every tally of up to MaxTally checks the list with
        \* that many passes, warnings and fails
        SampleChecks ==
            {Check("MRZ Checksum", "pass", <<"MRZ checksums are valid">>),
             Check("Expiry Date", "pass", <<"Document is valid">>),
             Check("Document Number", "warning", <<"Document number differs from MRZ">>),
             Check("Name", "warning", <<"Name similarity: ", "75", "%">>),
             Check("Expiry Date", "fail", <<"Document has expired">>),
             Check("Nationality", "fail", <<"Nationality ", "X", "X", "A", " is blocked">>)}
        TallyList(p, w, f) ==
            Rep(Check("MRZ Checksum", "pass", <<"MRZ checksums are valid">>), p)
            \o Rep(Check("Document Number", "warning", <<"Document number differs from MRZ">>), w)
            \o Rep(Check("Expiry Date", "fail", <<"Document has expired">>), f)
    IN
    SeqsUpTo(SampleChecks, MaxChecks)
    \cup {TallyList(p, w, f) : p \in 0..MaxTally, w \in 0..MaxTally, f \in 0..1}

NameStrings ==
    LET \* strings for calculateSimilarity: every string up to MaxNameLen over a
        \* small alphabet
        NameChars == {"A", "B", "1"}
    IN
               SeqsUpTo(NameChars, MaxNameLen)

\* extracted fields, applicant forms, policies and evaluation times for
\* validateDocument
Field(value, confidence) == Some([value |-> value, confidence |-> confidence])

DocumentNumbers == {None, Field(<<"L", "8", "9", "8", "9", "0", "2", "C", "3">>, 75), Field(<<"l", "8", "9", "8", "-", "9", "0", "2", " ", "c", "3">>, 75), Field(<<"X", "1", "2", "3", "4", "5", "6", "7">>, 75)}
FullNames == {None, Field(<<"A", "N", "N", "A", " ", "M", "A", "R", "I", "A", " ", "E", "R", "I", "K", "S", "S", "O", "N">>, 70), Field(<<"A", "n", "n", "a", " ", "E", "r", "i", "k", "s", "s", "o", "n">>, 70), Field(<<"J", "O", "H", "N", " ", "D", "O", "E">>, 70)}

ExtractedFields ==
    LET BirthDates == {None, Field(<<"1", "9", "7", "4", "-", "0", "8", "-", "1", "2">>, 70), Field(<<"2", "0", "1", "0", "-", "0", "6", "-", "1", "5">>, 70), Field(<<"1", "2", "/", "0", "8", "/", "1", "9", "7", "4">>, 70)}
        \* past, future, well-formed but not a calendar date, and not ISO at all
        ExpiryDates ==
            {None, Field(<<"2", "0", "1", "2", "-", "0", "4", "-", "1", "5">>, 70), Field(<<"2", "0", "3", "1", "-", "0", "4", "-", "1", "5">>, 70), Field(<<"2", "0", "3", "0", "-", "1", "3", "-", "4", "5">>, 70),
             Field(<<"1", "5", ".", "0", "4", ".", "2", "0", "3", "1">>, 70)}
        Nationalities == {None, Field(<<"U", "T", "O">>, 70)}
    IN
    [documentNumber : DocumentNumbers, fullName : FullNames, dateOfBirth : BirthDates,
     expiryDate : ExpiryDates, nationality : Nationalities, sex : {None}]

MRZRecords ==
    {None, parseMRZ(<<TD3Line1, TD3Line2>>), parseMRZ(<<TD3Line1, TD3Line2BadBirth>>)}

ApplicantForms ==
    LET Form(passportNumber, dateOfBirth) ==
            Some([name |-> <<"A", "N", "N", "A", " ", "M", "A", "R", "I", "A", " ", "E", "R", "I", "K", "S", "S", "O", "N">>, dateOfBirth |-> dateOfBirth, passportNumber |-> passportNumber,
                  nationality |-> <<"U", "T", "O">>, intendedVisaType |-> <<>>])
    IN
                  {None, Form(<<"l", "8", "9", "8", "-", "9", "0", "2", " ", "c", "3">>, <<"1", "9", "7", "4", "-", "0", "8", "-", "1", "2">>), Form(<<"X", "1", "2", "3", "4", "5", "6", "7">>, <<"2", "0", "1", "0", "-", "0", "6", "-", "1", "5">>)}

Policies ==
    {None,
     Some([minAge |-> Some(18), maxAge |-> Some(100), allowedNationalities |-> None,
           blockedNationalities |-> None, minPassportValidity |-> Some(6)]),
     Some([minAge |-> Some(0), maxAge |-> Some(40),
           allowedNationalities |-> Some(<<<<"X", "X", "A">>>>),
           blockedNationalities |-> Some(<<<<"U", "T", "O">>, <<"X", "X", "A">>>>),
           minPassportValidity |-> None]),
     Some([minAge |-> None, maxAge |-> Some(0), allowedNationalities |-> None,
           blockedNationalities |-> None, minPassportValidity |-> None])}

CrossFields ==
    LET \* names and numbers for the cross-checks against the specimen's MRZ: the
        \* names put the similarity at 1, between the thresholds, exactly at 0.8
        \* (16 of 20) and exactly at 0.6 (12 of 20), and below
        CrossNames ==
            FullNames
            \cup {Field(<<"A", "N", "N", "A", " ", "M", "A", "R", "I", "A", " ", "E", "R", "I", "K", "S", "S", "E", "N", " ", "X", "Y", "Z">>, 70),
                  Field(<<"O", "N", "N", "O", " ", "M", "O", "R", "I", "O", " ", "E", "R", "I", "K", "S", "S", "E", "N", " ", "X", "Y", "Z">>, 70),
                  Field(<<"A", "n", "n", "a", "-", "M", "a", "r", "i", "a", " ", "E", "r", "i", "c", "s", "s", "o", "n">>, 70)}
    IN
    [documentNumber : DocumentNumbers, fullName : CrossNames, dateOfBirth : {None},
     expiryDate : {None}, nationality : {None}, sex : {None}]

PostTexts ==
    LET \* OCR texts for the POST handler: printed lines as the data page shows
        \* them, followed by the lines of the machine readable zone
        \* what a data page prints, label by label
        PrintedPage ==
            <<"P", "A", "S", "S", "P", "O", "R", "T", "\n", "P", "a", "s", "s",
              "p", "o", "r", "t", " ", "N", "o", ":", " ", "L", "8", "9", "8", "9",
              "0", "2", "C", "3", "\n", "S", "u", "r", "n", "a", "m", "e", ":",
              " ", "E", "R", "I", "K", "S", "S", "O", "N", "\n", "G", "i", "v",
              "e", "n", " ", "N", "a", "m", "e", "s", ":", " ", "A", "N", "N", "A",
              " ", "M", "A", "R", "I", "A", "\n", "N", "a", "t", "i", "o", "n",
              "a", "l", "i", "t", "y", ":", " ", "U", "t", "o", "p", "i", "a", "n",
              "\n", "D", "a", "t", "e", " ", "o", "f", " ", "B", "i", "r", "t",
              "h", ":", " ", "1", "2", "/", "0", "8", "/", "1", "9", "7", "4",
              "\n", "S", "e", "x", ":", " ", "F", "\n", "D", "a", "t", "e", " ",
              "o", "f", " ", "E", "x", "p", "i", "r", "y", ":", " ", "2", "0", "3",
              "1", "-", "0", "4", "-", "1", "5">>
        \* a page of which only the name was read
        PrintedName ==
            <<"N", "a", "m", "e", ":", " ", "A", "N", "N", "A", " ", "M", "A", "R",
              "I", "A", " ", "E", "R", "I", "K", "S", "S", "O", "N">>
        \* a page of which only the number was read
        PrintedNumber ==
            <<"D", "o", "c", "u", "m", "e", "n", "t", " ", "n", "u", "m", "b", "e",
              "r", " ", "L", "8", "9", "8", "9", "0", "2", "C", "3">>
        \* a page with another holder's name and number
        PrintedOther ==
            <<"N", "a", "m", "e", ":", " ", "J", "O", "H", "N", " ", "D", "O", "E",
              "\n", "P", "a", "s", "s", "p", "o", "r", "t", " ", "N", "o", ":",
              " ", "X", "1", "2", "3", "4", "5", "6", "7">>
        \* a heading in capitals, which the second name pattern takes for a name
        PrintedHeading ==
            <<"R", "E", "P", "U", "B", "L", "I", "C", " ", "O", "F", " ", "U", "T",
              "O", "P", "I", "A">>
        \* a number without a label that the first pattern knows
        PrintedBareNumber ==
            <<"N", "o", ".", " ", "A", "B", "1", "2", "3", "4", "5", "6", "7">>
        PrintedBlocks ==
            {<<>>, PrintedPage, PrintedName, PrintedNumber, PrintedOther, PrintedHeading,
             PrintedBareNumber}
        \* no zone, the specimen, a wrong check digit, an empty document number, an
        \* empty name block, and a three-line zone
        MRZGroups ==
            {<<>>,
             <<TD3Line1, TD3Line2>>,
             <<TD3Line1, TD3Line2BadBirth>>,
             <<TD3Line1, MakeLine2(Rep(Filler, 9), "0", SubSeq(TD3Line2, 14, 19), "2",
                                   SubSeq(TD3Line2, 22, 27), "9")>>,
             <<NameLine(<<>>), TD3Line2>>,
             <<TD1Line1, TD1Line2, TD1Line3>>}
    IN
    {Join((IF block = <<>> THEN <<>> ELSE <<block>>) \o group, <<"\n">>) :
        block \in PrintedBlocks, group \in MRZGroups}

(***************************************************************************)
(* page.tsx: the state of Home and its two handlers.  pc = "fetch" while   *)
(* handleVerify waits for the response, "Home" otherwise.                  *)
(***************************************************************************)
\* the state of Home after the first render
NoUpload ==
    /\ imageFile = None
    /\ imagePreview = <<>>
    /\ result = None
    /\ loading = FALSE
    /\ error = ""
    /\ readers = <<>>

\* the files the user can choose
Files == {"a.png", "b.png"}

\* reader.result after readAsDataURL(file)
DataURL(file) == <<"data:", file>>

\* how the request ends: an OK response with a result, a response that is
\* not OK whose body has a message or none, or fetch or response.json()
\* rejecting with an Error with a message or with an empty one
Outcomes ==
    [kind : {"ok"}, message : {""}]
    \cup [kind : {"notOk", "rejected"}, message : {"", "Verification error"}]

\* SettledError that shows the message of the Error as it is
SettledError_NoFallback(outcome) ==
    IF outcome.kind = "notOk" /\ outcome.message = "" THEN "Verification failed"
    ELSE outcome.message

\* lines 129-137: the message setError gets in the catch block
SettledError(outcome) ==
    LET message == IF outcome.kind = "notOk" /\ outcome.message = ""
                   THEN "Verification failed"
                   ELSE outcome.message
    IN  IF message # "" THEN message ELSE "An error occurred during verification"

(***************************************************************************)
(* The state machine: an operation takes its arguments from the state and  *)
(* stores its result.  pc names what the state holds.                      *)
(***************************************************************************)
NoFields ==
    [documentNumber |-> None, fullName |-> None, dateOfBirth |-> None,
     expiryDate |-> None, nationality |-> None, sex |-> None]

DefaultTime == [y |-> 2026, m |-> 11, d |-> 2, t |-> 1]

\* the variables that hold results, before any operation has run
NoResults ==
    /\ accepted = {}
    /\ ratio = None
    /\ responseStatus = 0
    /\ resultType = ""
    /\ resultSummary = <<>>
    /\ eligibility = None
    /\ overallConfidence = 0
    /\ recommendations = <<>>

NoDocument ==
    /\ extractedData = NoFields
    /\ applicantForm = None
    /\ policy = None
    /\ now = DefaultTime

InitChecksum ==
    /\ pc = "data"
    /\ data \in DataStrings
    /\ text = <<>> /\ mrzLines = <<>> /\ mrzData = None /\ checks = <<>>
    /\ NoDocument /\ strings = <<>> /\ NoResults /\ NoUpload
    /\ request = [image |-> "none", wellFormed |-> TRUE] /\ ocrConfidence = 0

InitMRZ ==
    /\ pc \in {"text", "lines"}
    /\ text \in IF pc = "text" THEN Texts ELSE {<<>>}
    /\ mrzLines \in IF pc = "lines" THEN LineLists ELSE {<<>>}
    /\ data = <<>> /\ mrzData = None /\ checks = <<>>
    /\ NoDocument /\ strings = <<>> /\ NoResults /\ NoUpload
    /\ request = [image |-> "none", wellFormed |-> TRUE] /\ ocrConfidence = 0

InitTD3 ==
    /\ pc = "lines"
    /\ mrzLines \in TD3Pairs
    /\ data = <<>> /\ text = <<>> /\ mrzData = None /\ checks = <<>>
    /\ NoDocument /\ strings = <<>> /\ NoResults /\ NoUpload
    /\ request = [image |-> "none", wellFormed |-> TRUE] /\ ocrConfidence = 0

InitAssess ==
    /\ pc = "checks"
    /\ checks \in CheckLists
    /\ data = <<>> /\ text = <<>> /\ mrzLines = <<>> /\ mrzData = None
    /\ NoDocument /\ strings = <<>> /\ NoResults /\ NoUpload
    /\ request = [image |-> "none", wellFormed |-> TRUE] /\ ocrConfidence = 0

InitValidate ==
    LET Times == {[y |-> 2026, m |-> 11, d |-> 2, t |-> 1], [y |-> 2012, m |-> 4, d |-> 15, t |-> 0]}
    IN
    /\ pc = "document"
    /\ extractedData \in ExtractedFields
    /\ mrzData \in MRZRecords
    /\ applicantForm \in ApplicantForms
    /\ policy \in Policies
    /\ now \in Times
    /\ data = <<>> /\ text = <<>> /\ mrzLines = <<>> /\ checks = <<>>
    /\ strings = <<>> /\ NoResults /\ NoUpload
    /\ request = [image |-> "none", wellFormed |-> TRUE] /\ ocrConfidence = 0

InitCross ==
    LET CrossRecords ==
            MRZRecords
            \cup {parseMRZ(<<TD3Line1, MakeLine2(Rep(Filler, 9), "0", SubSeq(TD3Line2, 14, 19), "2",
                                                 SubSeq(TD3Line2, 22, 27), "9")>>),
                  parseMRZ(<<NameLine(<<>>), TD3Line2>>)}
    IN
    /\ pc = "document"
    /\ extractedData \in CrossFields
    /\ mrzData \in CrossRecords
    /\ applicantForm \in ApplicantForms
    /\ policy = None
    /\ now = DefaultTime
    /\ data = <<>> /\ text = <<>> /\ mrzLines = <<>> /\ checks = <<>>
    /\ strings = <<>> /\ NoResults /\ NoUpload
    /\ request = [image |-> "none", wellFormed |-> TRUE] /\ ocrConfidence = 0

InitVerify ==
    LET \* the form and the policy that come with the request: none, or the
        \* specimen holder's form and a policy with every age and validity bound
        VerifyForms == {form \in ApplicantForms : IsSome(form) => Get(form).passportNumber[1] = "l"}
        VerifyPolicies == {p \in Policies : IsSome(p) => IsSome(Get(p).minPassportValidity)}
        \* the OCR confidence in hundredths: 87.5 and 42.49
        OcrConfidences == {8750, 4249}
        \* a request without an image, with an image the OCR cannot read, with a
        \* readable one; its JSON fields well formed or not
        Requests == [image : {"none", "unreadable", "readable"}, wellFormed : BOOLEAN]
    IN
    /\ pc = "request"
    /\ request \in Requests
    /\ text \in PostTexts
    /\ ocrConfidence \in OcrConfidences
    /\ applicantForm \in VerifyForms
    /\ policy \in VerifyPolicies
    /\ now = DefaultTime
    /\ extractedData = NoFields
    /\ data = <<>> /\ mrzLines = <<>> /\ mrzData = None /\ checks = <<>>
    /\ strings = <<>> /\ NoResults /\ NoUpload

InitSimilarity ==
    /\ pc = "strings"
    /\ strings \in NameStrings \X NameStrings
    /\ data = <<>> /\ text = <<>> /\ mrzLines = <<>> /\ mrzData = None /\ checks = <<>>
    /\ NoDocument /\ NoResults /\ NoUpload
    /\ request = [image |-> "none", wellFormed |-> TRUE] /\ ocrConfidence = 0

InitHome ==
    /\ pc = "Home"
    /\ NoDocument /\ NoResults /\ NoUpload
    /\ data = <<>> /\ text = <<>> /\ mrzLines = <<>> /\ mrzData = None /\ checks = <<>>
    /\ now = DefaultTime
    /\ strings = <<>>
    /\ request = [image |-> "none", wellFormed |-> TRUE] /\ ocrConfidence = 0

Init == InitChecksum \/ InitMRZ \/ InitTD3 \/ InitAssess \/ InitValidate
        \/ InitSimilarity \/ InitCross \/ InitVerify \/ InitHome

\* every check character validateChecksum(data, c) accepts
ValidateChecksum ==
    /\ pc = "data"
    /\ accepted' = {c \in MRZChars : validateChecksum(data, <<c>>)}
    /\ pc' = "validateChecksum"
    /\ UNCHANGED <<imageFile, imagePreview, result, loading, error, readers,
                   data, text, mrzLines, mrzData, extractedData, applicantForm,
                   policy, now, checks, eligibility, overallConfidence,
                   recommendations,
                   strings, ratio,
                   request, ocrConfidence, responseStatus, resultType, resultSummary>>

ExtractMRZFromText ==
    /\ pc = "text"
    /\ mrzLines' = extractMRZFromText(text)
    /\ pc' = "extractMRZFromText"
    /\ UNCHANGED <<imageFile, imagePreview, result, loading, error, readers,
                   data, accepted, text, mrzData, extractedData, applicantForm,
                   policy, now, checks, eligibility, overallConfidence,
                   recommendations,
                   strings, ratio,
                   request, ocrConfidence, responseStatus, resultType, resultSummary>>

ParseMRZ ==
    /\ pc \in {"lines", "extractMRZFromText"}
    /\ mrzData' = parseMRZ(mrzLines)
    /\ pc' = "parseMRZ"
    /\ UNCHANGED <<imageFile, imagePreview, result, loading, error, readers,
                   data, accepted, text, mrzLines, extractedData, applicantForm,
                   policy, now, checks, eligibility, overallConfidence,
                   recommendations,
                   strings, ratio,
                   request, ocrConfidence, responseStatus, resultType, resultSummary>>

ValidateDocument ==
    /\ pc = "document"
    /\ checks' = validateDocument(extractedData, mrzData, applicantForm, policy, now)
    /\ pc' = "validateDocument"
    /\ UNCHANGED <<imageFile, imagePreview, result, loading, error, readers,
                   data, accepted, text, mrzLines, mrzData, extractedData,
                   applicantForm, policy, now, eligibility, overallConfidence,
                   recommendations,
                   strings, ratio,
                   request, ocrConfidence, responseStatus, resultType, resultSummary>>

AssessEligibility ==
    /\ pc \in {"checks", "validateDocument"}
    /\ eligibility' = Some(assessEligibility(checks))
    /\ pc' = "assessEligibility"
    /\ UNCHANGED <<imageFile, imagePreview, result, loading, error, readers,
                   data, accepted, text, mrzLines, mrzData, extractedData,
                   applicantForm, policy, now, checks, overallConfidence,
                   recommendations,
                   strings, ratio,
                   request, ocrConfidence, responseStatus, resultType, resultSummary>>

GenerateRecommendations ==
    LET OverallConfidences == {0, 59, 60, 79, 80, 100}
    IN
    /\ pc = "assessEligibility"
    /\ \E overall \in OverallConfidences :
          /\ overallConfidence' = overall
          /\ recommendations' =
                generateRecommendations(checks, Get(eligibility), overall)
    /\ pc' = "generateRecommendations"
    /\ UNCHANGED <<imageFile, imagePreview, result, loading, error, readers,
                   data, accepted, text, mrzLines, mrzData, extractedData,
                   applicantForm, policy, now, checks, eligibility,
                   strings, ratio,
                   request, ocrConfidence, responseStatus, resultType, resultSummary>>

CalculateSimilarity ==
    /\ pc = "strings"
    /\ ratio' = Some(calculateSimilarity(strings[1], strings[2]))
    /\ pc' = "calculateSimilarity"
    /\ UNCHANGED <<imageFile, imagePreview, result, loading, error, readers,
                   data, accepted, text, mrzLines, mrzData, extractedData,
                   applicantForm, policy, now, checks, eligibility,
                   overallConfidence, recommendations, strings,
                   request, ocrConfidence, responseStatus, resultType, resultSummary>>

\* the whole handler: nothing but the status when the request is refused
\* or something throws, otherwise every step from the OCR text to the result
POST ==
    /\ pc = "request"
    /\ responseStatus' = StatusOf(request)
    /\ IF StatusOf(request) = 200
       THEN /\ mrzLines' = extractMRZFromText(text)
            /\ mrzData' = parseMRZ(mrzLines')
            /\ extractedData' = EnrichWithMRZ(extractDocumentFields(text), mrzData')
            /\ resultType' = determineDocumentType(text, mrzData')
            /\ overallConfidence' = OverallConfidence(extractedData', ocrConfidence)
            /\ checks' = validateDocument(extractedData', mrzData', applicantForm, policy, now)
            /\ eligibility' = Some(assessEligibility(checks'))
            /\ recommendations' =
                  generateRecommendations(checks', Get(eligibility'), overallConfidence')
            /\ resultSummary' =
                  generateSummary(resultType', Get(eligibility'), overallConfidence',
                                  extractedData')
       ELSE UNCHANGED <<mrzLines, mrzData, extractedData, resultType, overallConfidence,
                        checks, eligibility, recommendations, resultSummary>>
    /\ pc' = "POST"
    /\ UNCHANGED <<imageFile, imagePreview, result, loading, error, readers,
                   data, accepted, text, applicantForm, policy, now, strings, ratio,
                   request, ocrConfidence>>

\* the variables the handlers of Home leave alone
validatorVars ==
    <<data, accepted, text, mrzLines, mrzData, extractedData, applicantForm, policy,
      now, checks, eligibility, overallConfidence, recommendations, strings, ratio,
      request, ocrConfidence, responseStatus, resultType, resultSummary>>

\* lines 91-101: a change of the file input, with a file or (the dialog
\* cancelled) with none
HandleImageChange ==
    /\ pc \in {"Home", "fetch"}
    /\ Len(readers) < MaxReaders
    /\ \E file \in {None} \cup {Some(f) : f \in Files} :
          IF IsSome(file)
          THEN /\ imageFile' = file
               /\ readers' = Append(readers, Get(file))
          ELSE UNCHANGED <<imageFile, readers>>
    /\ UNCHANGED <<pc, imagePreview, result, loading, error, validatorVars>>

\* lines 96-98: one of the readers finishes, with the data URL or (the read
\* failed) with null
OnLoadEnd ==
    /\ pc \in {"Home", "fetch"}
    /\ \E i \in 1..Len(readers), loaded \in BOOLEAN :
          /\ imagePreview' = IF loaded THEN DataURL(readers[i]) ELSE <<"null">>
          /\ readers' = SubSeq(readers, 1, i - 1) \o SubSeq(readers, i + 1, Len(readers))
    /\ UNCHANGED <<pc, imageFile, result, loading, error, validatorVars>>

\* lines 103-124: handleVerify up to the await of fetch, called by the
\* button (enabled unless loading || !imageFile, lines 285-291) or, for the
\* branch the button excludes, with no file selected
HandleVerify ==
    /\ pc = "Home"
    /\ ~IsSome(imageFile) \/ ~loading
    /\ IF ~IsSome(imageFile)
       THEN /\ error' = "Please select an image file"
            /\ UNCHANGED <<pc, loading, result>>
       ELSE /\ loading' = TRUE
            /\ error' = ""
            /\ result' = None
            /\ pc' = "fetch"
    /\ UNCHANGED <<imageFile, imagePreview, readers, validatorVars>>

\* lines 124-140: the request settles
FetchSettles ==
    /\ pc = "fetch"
    /\ \E outcome \in Outcomes :
          IF outcome.kind = "ok"
          THEN /\ result' = Some("VerificationResult")
               /\ UNCHANGED error
          ELSE /\ error' = SettledError(outcome)
               /\ UNCHANGED result
    /\ loading' = FALSE
    /\ pc' = "Home"
    /\ UNCHANGED <<imageFile, imagePreview, readers, validatorVars>>

NextHome == HandleImageChange \/ OnLoadEnd \/ HandleVerify \/ FetchSettles

NextMRZ == ExtractMRZFromText \/ ParseMRZ
NextAssess == AssessEligibility \/ GenerateRecommendations
NextValidate == ValidateDocument \/ AssessEligibility

Next ==
    \/ ValidateChecksum
    \/ ExtractMRZFromText
    \/ ParseMRZ
    \/ ValidateDocument
    \/ AssessEligibility
    \/ GenerateRecommendations
    \/ CalculateSimilarity
    \/ POST
    \/ HandleImageChange
    \/ OnLoadEnd
    \/ HandleVerify
    \/ FetchSettles

SpecChecksum == InitChecksum /\ [][ValidateChecksum]_vars
SpecMRZ == InitMRZ /\ [][NextMRZ]_vars
SpecTD3 == InitTD3 /\ [][ParseMRZ]_vars
SpecAssess == InitAssess /\ [][NextAssess]_vars
SpecValidate == InitValidate /\ [][NextValidate]_vars
SpecSimilarity == InitSimilarity /\ [][CalculateSimilarity]_vars
SpecCross == InitCross /\ [][ValidateDocument]_vars
SpecVerify == InitVerify /\ [][POST]_vars
SpecHome == InitHome /\ [][NextHome]_vars
Spec == Init /\ [][Next]_vars

(***************************************************************************)
(* Properties.                                                             *)
(***************************************************************************)
Assessed == pc \in {"assessEligibility", "generateRecommendations"}
StatusCount(list, status) == Cardinality({i \in 1..Len(list) : list[i].status = status})

\* C1: the eligible flag assessEligibility returns is true exactly when no
\* check of the list has status 'fail'; warnings and passes do not matter.
C1_EligibleIffNoFail ==
    Assessed =>
        (Get(eligibility).eligible <=> \A i \in 1..Len(checks) : checks[i].status # "fail")

C1_Witness ==
    /\ pc = "assessEligibility"
    /\ Get(eligibility).eligible
    /\ StatusCount(checks, "warning") >= 2
    /\ StatusCount(checks, "pass") >= 1

\* round(100 * (passes + warnings / 2) / total) on the rationals, halves up
ExactConfidence(list) ==
    LET total == Max(Len(list), 1)
        twice == 2 * StatusCount(list, "pass") + StatusCount(list, "warning")
    IN  (100 * twice + total) \div (2 * total)

\* C2: the confidence assessEligibility returns is
\* round(100 * (passCount + 0.5 * warningCount) / max(totalChecks, 1)) with
\* halves rounded up, and an integer between 0 and 100.
C2_ConfidenceIsExactRounding ==
    Assessed =>
        /\ Get(eligibility).confidence = ExactConfidence(checks)
        /\ Get(eligibility).confidence \in 0..100

CleanedLengths(lines) == [i \in 1..Len(lines) |-> Len(CleanLine(lines[i]))]

\* C3: parseMRZ returns a record only for two cleaned lines of 44
\* characters each or three cleaned lines of 30 characters each.
C3_RecordOnlyForExactShape ==
    (pc = "parseMRZ" /\ IsSome(mrzData)) =>
        CleanedLengths(mrzLines) \in {<<44, 44>>, <<30, 30, 30>>}

\* the ICAO 9303 check digit, from the position of each character in
\* 0..9A..Z and the weight of its place
Alphanumerics == Digits \o UpperCase
ReferenceValue(c) == IF c = Filler THEN 0 ELSE IndexOf(Alphanumerics, c) - 1
ReferenceWeight(i) == CASE i % 3 = 1 -> 7 [] i % 3 = 2 -> 3 [] i % 3 = 0 -> 1

RECURSIVE ReferenceSum(_, _)
ReferenceSum(str, n) ==
    IF n = 0 THEN 0
    ELSE ReferenceSum(str, n - 1) + ReferenceValue(str[n]) * ReferenceWeight(n)

ReferenceCheckDigit(str) == Digits[(ReferenceSum(str, Len(str)) % 10) + 1]

\* C4: validateChecksum(data, c) is true exactly for the check character c
\* that is the ICAO 9303 check digit of data (weights 7, 3, 1, digits as
\* themselves, A..Z as 10..35, filler as 0).
C4_ChecksumIsICAO ==
    pc = "validateChecksum" => accepted = {ReferenceCheckDigit(data)}

C4_Witness ==
    /\ pc = "validateChecksum"
    /\ data = <<"K", Filler, "9", "Z">>
    /\ accepted = {"4"}

\* C5: the ICAO 9303 TD3 specimen decodes to P, UTO, ERIKSSON, ANNA MARIA,
\* L898902C3, UTO, 1974-08-12, F, 2012-04-15 with valid checksums.
C5_SpecimenDecodes ==
    (pc = "parseMRZ"
        /\ [i \in 1..Len(mrzLines) |-> CleanLine(mrzLines[i])] = <<TD3Line1, TD3Line2>>) =>
        mrzData = Some([documentType |-> <<"P">>,
                        issuingCountry |-> <<"U", "T", "O">>,
                        surname |-> <<"E", "R", "I", "K", "S", "S", "O", "N">>,
                        givenNames |-> <<"A", "N", "N", "A", " ", "M", "A", "R", "I", "A">>,
                        documentNumber |-> <<"L", "8", "9", "8", "9", "0", "2", "C", "3">>,
                        nationality |-> <<"U", "T", "O">>,
                        dateOfBirth |-> <<"1", "9", "7", "4", "-", "0", "8", "-", "1", "2">>,
                        sex |-> <<"F">>,
                        expiryDate |-> <<"2", "0", "1", "2", "-", "0", "4", "-", "1", "5">>,
                        checksumValid |-> TRUE])

C5_Witness ==
    /\ pc = "parseMRZ"
    /\ mrzLines = <<TD3Line1, TD3Line2>>
    /\ IsSome(mrzData)
    /\ Get(mrzData).checksumValid

Validated == pc \in {"validateDocument", "assessEligibility", "generateRecommendations"}
ExpiryRuleChecks ==
    {i \in 1..Len(checks) :
        checks[i].field = "Expiry Date" /\ checks[i].message # <<"Date format is valid (ISO 8601)">>
                                         /\ checks[i].message # <<"Date format is invalid">>}

\* C6: for a non-empty expiry date that is not a calendar date, the expiry
\* rule yields a 'fail' check with the message 'Unable to parse expiry
\* date', never a 'pass'.
C6_UnparseableExpiryFails ==
    (Validated
        /\ Truthy(Value(extractedData.expiryDate))
        /\ ~IsSome(parseISO(Value(extractedData.expiryDate)))) =>
        /\ ExpiryRuleChecks # {}
        /\ \A i \in ExpiryRuleChecks :
              /\ checks[i].status = "fail"
              /\ checks[i].message = <<"Unable to parse expiry date">>

Reject == <<"REJECT APPLICATION: Critical validation failures detected">>
ReviewRequired == <<"MANUAL REVIEW REQUIRED: Low confidence in document extraction">>
ReviewRecommended == <<"MANUAL REVIEW RECOMMENDED: Moderate confidence level">>
Approve == <<"APPROVE: All checks passed with high confidence">>
FailedFields == LET failed == SelectSeq(checks, LAMBDA c : c.status = "fail")
                IN  [i \in 1..Len(failed) |-> failed[i].field]

\* C7: the first recommendation is REJECT iff not eligible (then followed by
\* one '- Address issue: <field>' per fail check, in order); else MANUAL
\* REVIEW REQUIRED iff overallConfidence < 60; else MANUAL REVIEW
\* RECOMMENDED iff overallConfidence < 80 or eligibility confidence < 80;
\* else APPROVE.
C7_RecommendationCases ==
    pc = "generateRecommendations" =>
        LET e == Get(eligibility)
            first == recommendations[1]
        IN  /\ first \in {Reject, ReviewRequired, ReviewRecommended, Approve}
            /\ first = Reject <=> ~e.eligible
            /\ ~e.eligible =>
                  recommendations =
                      <<Reject>> \o [i \in 1..Len(FailedFields) |->
                                        <<"- Address issue: ", FailedFields[i]>>]
            /\ first = ReviewRequired <=> (e.eligible /\ overallConfidence < 60)
            /\ first = ReviewRecommended <=>
                  (e.eligible /\ overallConfidence >= 60
                      /\ (overallConfidence < 80 \/ e.confidence < 80))
            /\ first = Approve <=>
                  (e.eligible /\ overallConfidence >= 80 /\ e.confidence >= 80)

C7_Witness ==
    /\ pc = "generateRecommendations"
    /\ Get(eligibility).eligible
    /\ overallConfidence >= 80
    /\ Get(eligibility).confidence < 80
    /\ recommendations[1] = ReviewRecommended

\* the reasons list as C8 describes it, ending with closing when eligible
\* and a pass check exists
ReasonsAre(closing) ==
    LET failed == SelectSeq(checks, LAMBDA c : c.status = "fail")
        warned == SelectSeq(checks, LAMBDA c : c.status = "warning")
        last == Get(eligibility).eligible /\ StatusCount(checks, "pass") > 0
        r == Get(eligibility).reasons
    IN  /\ Len(r) = Len(failed) + Len(warned) + (IF last THEN 1 ELSE 0)
        /\ \A i \in 1..Len(failed) :
              r[i] = <<failed[i].field, ": ">> \o failed[i].message
        /\ \A i \in 1..Len(warned) :
              r[Len(failed) + i] = <<"Warning - ", warned[i].field, ": ">> \o warned[i].message
        /\ last => r[Len(r)] = <<closing>>

\* C8 as stated: the reasons are the fail entries, then the warning entries,
\* then, iff eligible with a pass check, the entry
\* "All validation checks passed." (with the full stop).
C8_ReasonsAsStated == Assessed => ReasonsAre("All validation checks passed.")

\* C8: the reasons are one '<field>: <message>' per fail check in order,
\* then one 'Warning - <field>: <message>' per warning check in order, then,
\* iff eligible with at least one pass check, the entry
\* 'All validation checks passed' (no full stop), and nothing else.
C8_ReasonsOrder == Assessed => ReasonsAre("All validation checks passed")

C8_Witness ==
    /\ pc = "assessEligibility"
    /\ Get(eligibility).eligible
    /\ StatusCount(checks, "warning") >= 1
    /\ StatusCount(checks, "pass") >= 1
    /\ Len(Get(eligibility).reasons) = StatusCount(checks, "warning") + 1

WithChecksum(valid) ==
    validateDocument(extractedData, Some([Get(mrzData) EXCEPT !.checksumValid = valid]),
                     applicantForm, policy, now)

\* C9: the check list for an MRZ record with checksumValid = false is the
\* list for the same record with checksumValid = true except that the one
\* 'MRZ Checksum' check is 'fail' instead of 'pass'.
C9_ChecksumOnlyChangesItsCheck ==
    (pc = "validateDocument" /\ IsSome(mrzData)) =>
        LET good == WithChecksum(TRUE)
            bad == WithChecksum(FALSE)
            differ == {i \in 1..Len(good) : good[i] # bad[i]}
        IN  /\ checks = IF Get(mrzData).checksumValid THEN good ELSE bad
            /\ Len(good) = Len(bad)
            /\ Cardinality(differ) = 1
            /\ \A i \in differ :
                  /\ good[i].field = "MRZ Checksum" /\ good[i].status = "pass"
                  /\ bad[i].field = "MRZ Checksum" /\ bad[i].status = "fail"
            /\ Cardinality({i \in 1..Len(good) : good[i].field = "MRZ Checksum"}) = 1

C9_Witness ==
    /\ pc = "validateDocument"
    /\ IsSome(mrzData)
    /\ ~Get(mrzData).checksumValid
    /\ \E i \in 1..Len(checks) : checks[i].field = "Name" /\ checks[i].status = "fail"
    /\ \E i \in 1..Len(checks) : checks[i].field = "Document Number"
    /\ \E i \in 1..Len(checks) : checks[i].field = "Age Requirement"

TextLinesOf(txt) == Split(txt, <<"\n">>)
Unspaced(line) == SelectSeq(line, LAMBDA c : c \notin WhiteSpace)
Qualifies(line) ==
    /\ Len(Unspaced(line)) \in 28..44
    /\ Range(Unspaced(line)) \subseteq MRZChars
QualifyingLines(txt) == {i \in 1..Len(TextLinesOf(txt)) : Qualifies(TextLinesOf(txt)[i])}
NthOf(S, n) == CHOOSE i \in S : Cardinality({j \in S : j <= i}) = n

\* C10: extractMRZFromText returns exactly the lines of the text that, with
\* all whitespace removed, consist of [A-Z0-9<] only and are 28 to 44
\* characters long, whitespace-stripped and in input order; none qualifying
\* gives the empty sequence.
C10_ExtractQualifyingLines ==
    pc = "extractMRZFromText" =>
        /\ Len(mrzLines) = Cardinality(QualifyingLines(text))
        /\ \A n \in 1..Len(mrzLines) :
              mrzLines[n] = Unspaced(TextLinesOf(text)[NthOf(QualifyingLines(text), n)])

C10_Witness ==
    /\ pc = "extractMRZFromText"
    /\ Len(TextLinesOf(text)) = 3
    /\ Len(mrzLines) = 2
    /\ Len(mrzLines[1]) = 44
    /\ Len(mrzLines[2]) = 30
    /\ mrzLines[2] # TextLinesOf(text)[2]
    /\ mrzLines[2] # TextLinesOf(text)[3]

\* a two-line record has been decoded
DecodedTD3 == pc = "parseMRZ" /\ Len(mrzLines) = 2 /\ IsSome(mrzData)
Line2 == CleanLine(mrzLines[2])

\* the MRZ field of a decoded value: the document number padded with the
\* filler to n characters, an ISO date YYYY-MM-DD as YYMMDD
PadFiller(str, n) == str \o Rep(Filler, n - Len(str))
ToYYMMDD(iso) == Substring(iso, 2, 4) \o Substring(iso, 5, 7) \o Substring(iso, 8, 10)

\* C11: when a TD3 pair decodes with checksumValid = true, the check digits
\* of the re-encoded documentNumber (padded with '<' to 9 characters),
\* dateOfBirth and expiryDate (as YYMMDD) are the digits at positions 9, 19
\* and 27 of line 2.
C11_CheckDigitsRoundTrip ==
    (DecodedTD3 /\ Get(mrzData).checksumValid) =>
        /\ validateChecksum(PadFiller(Get(mrzData).documentNumber, 9), <<Line2[10]>>)
        /\ validateChecksum(ToYYMMDD(Get(mrzData).dateOfBirth), <<Line2[20]>>)
        /\ validateChecksum(ToYYMMDD(Get(mrzData).expiryDate), <<Line2[28]>>)

\* C12: for an empty check list assessEligibility returns eligible = true,
\* confidence = 0 and no reasons.
C12_EmptyListAssessment ==
    (Assessed /\ checks = <<>>) =>
        /\ Get(eligibility).eligible
        /\ Get(eligibility).confidence = 0
        /\ Get(eligibility).reasons = <<>>

C12_Witness ==
    /\ pc = "assessEligibility"
    /\ checks = <<>>
    /\ Get(eligibility).eligible
    /\ Get(eligibility).reasons = <<>>

\* the name block of line 1 and the place of its first '<<', 0 when none
NameBlock == Substring(CleanLine(mrzLines[1]), 5, 44)
FirstSeparator ==
    LET hits == {i \in 1..(Len(NameBlock) - 1) :
                    NameBlock[i] = Filler /\ NameBlock[i + 1] = Filler}
    IN  IF hits = {} THEN 0 ELSE MinOf(hits)
BeforeSeparator ==
    IF FirstSeparator = 0 THEN NameBlock ELSE SubSeq(NameBlock, 1, FirstSeparator - 1)
AfterSeparator ==
    IF FirstSeparator = 0 THEN <<>>
    ELSE SubSeq(NameBlock, FirstSeparator + 2, Len(NameBlock))

\* C13: in TD3 decoding the name block is split at its first '<<' only:
\* surname is what precedes it and givenNames all that follows it, each with
\* '<' turned into a space and trimmed, so a later '<<' cuts nothing off.
C13_NameSplitAtFirstSeparator ==
    DecodedTD3 =>
        /\ Get(mrzData).surname = Trim(FillerToSpace(BeforeSeparator))
        /\ Get(mrzData).givenNames = Trim(FillerToSpace(AfterSeparator))

\* the check digits of the three fields of line 2, by the ICAO 9303 rule
NumberDigitVerifies == Line2[10] = ReferenceCheckDigit(SubSeq(Line2, 1, 9))
BirthDigitVerifies == Line2[20] = ReferenceCheckDigit(SubSeq(Line2, 14, 19))
ExpiryDigitVerifies == Line2[28] = ReferenceCheckDigit(SubSeq(Line2, 22, 27))

\* C14: a TD3 record has checksumValid = true exactly when line 2 [9] is the
\* check digit of the raw document number field [0:9], [19] that of the
\* birth date [13:19] and [27] that of the expiry date [21:27].
C14_ChecksumValidIffAllThree ==
    DecodedTD3 =>
        (Get(mrzData).checksumValid <=>
            NumberDigitVerifies /\ BirthDigitVerifies /\ ExpiryDigitVerifies)

C14_Witness ==
    /\ DecodedTD3
    /\ NumberDigitVerifies /\ BirthDigitVerifies /\ ~ExpiryDigitVerifies
    /\ SubSeq(Line2, 1, 9) = <<"A", "B", "1", "2", Filler, Filler, Filler, Filler, Filler>>
    /\ ~Get(mrzData).checksumValid

\* the year the century rule gives a two-digit year
DigitValue(c) == IndexOf(Digits, c) - 1
CenturyYear(yy) == IF yy < 50 THEN 2000 + yy ELSE 1900 + yy
\* the ISO date of a six-digit field under the century rule
ExpectedISO(field) ==
    NumToStr(CenturyYear(10 * DigitValue(field[1]) + DigitValue(field[2])))
    \o <<"-">> \o SubSeq(field, 3, 4) \o <<"-">> \o SubSeq(field, 5, 6)
ExpectedYears == {NumToStr(y) : y \in 1950..2049}
BirthField == SubSeq(Line2, 14, 19)
ExpiryField == SubSeq(Line2, 22, 27)

\* C15: parseDate maps a six-digit YYMMDD to the ISO date of year 2000+YY
\* when YY < 50 and 1900+YY when YY >= 50, month and day digits unchanged;
\* the decoded years lie in 1950..2049.
C15_CenturyInference ==
    DecodedTD3 =>
        /\ Range(BirthField) \subseteq Range(Digits) =>
              /\ Get(mrzData).dateOfBirth = ExpectedISO(BirthField)
              /\ SubSeq(Get(mrzData).dateOfBirth, 1, 4) \in ExpectedYears
        /\ Range(ExpiryField) \subseteq Range(Digits) =>
              /\ Get(mrzData).expiryDate = ExpectedISO(ExpiryField)
              /\ SubSeq(Get(mrzData).expiryDate, 1, 4) \in ExpectedYears

C15_Witness ==
    /\ DecodedTD3
    /\ BirthField = <<"5", "0", "1", "2", "3", "1">>
    /\ Get(mrzData).dateOfBirth = <<"1", "9", "5", "0", "-", "1", "2", "-", "3", "1">>

\* the 'Age Requirement' checks of the list, and how many bounds of the
\* policy the age violates (no comparison holds for a NaN age)
AgeRequirementChecks == SelectSeq(checks, LAMBDA c : c.field = "Age Requirement")
ViolatedAgeBounds ==
    LET age == calculateAge(Value(extractedData.dateOfBirth), now)
        pol == Get(policy)
    IN  IF ~IsSome(age) THEN 0
        ELSE (IF IsSome(pol.minAge) /\ Get(age) < Get(pol.minAge) THEN 1 ELSE 0)
             + (IF IsSome(pol.maxAge) /\ Get(age) > Get(pol.maxAge) THEN 1 ELSE 0)

\* C16: with a policy and an extracted dateOfBirth, validateDocument appends
\* one 'Age Requirement' fail check for each configured bound the age
\* violates, whatever the bound's value (0 included), and none otherwise.
C16_AgeCheckPerViolatedBound ==
    (Validated /\ IsSome(policy) /\ Truthy(Value(extractedData.dateOfBirth))) =>
        /\ Len(AgeRequirementChecks) = ViolatedAgeBounds
        /\ \A i \in 1..Len(AgeRequirementChecks) : AgeRequirementChecks[i].status = "fail"

\* the edit distance with unit costs, by its recursive definition
RECURSIVE EditDistance(_, _)
EditDistance(a, b) ==
    IF Len(a) = 0 THEN Len(b)
    ELSE IF Len(b) = 0 THEN Len(a)
    ELSE IF Head(a) = Head(b) THEN EditDistance(Tail(a), Tail(b))
    ELSE 1 + Min(EditDistance(Tail(a), Tail(b)),
                 Min(EditDistance(Tail(a), b), EditDistance(a, Tail(b))))

ExpectedRatio(a, b) ==
    LET longest == Max(Len(a), Len(b))
    IN  IF longest = 0 THEN [num |-> 1, den |-> 1]
        ELSE [num |-> longest - EditDistance(a, b), den |-> longest]

\* C17: calculateSimilarity(a, b) = calculateSimilarity(b, a) for all
\* strings a and b, the value being (max - levenshtein(a, b)) / max for the
\* longer length max, and 1 when both strings are empty.
C17_SimilaritySymmetric ==
    pc = "calculateSimilarity" =>
        /\ Get(ratio) = calculateSimilarity(strings[2], strings[1])
        /\ Get(ratio) = ExpectedRatio(strings[1], strings[2])

C17_Witness ==
    /\ pc = "calculateSimilarity"
    /\ strings = << <<"A", "B">>, <<"A", "1", "B">> >>
    /\ Get(ratio) = [num |-> 2, den |-> 3]

ChecksOf(field) == SelectSeq(checks, LAMBDA c : c.field = field)

\* the similarity ratio of the extracted name and the MRZ name
NameRatio ==
    calculateSimilarity(
        normalizeString(Value(extractedData.fullName)),
        normalizeString(Get(mrzData).givenNames \o <<" ">> \o Get(mrzData).surname))

\* C18: with an MRZ record and an extracted fullName, the 'Name' check is
\* 'pass' iff the similarity of the normalized names is above 0.8,
\* 'warning' iff it is above 0.6 and at most 0.8, and 'fail' otherwise.
C18_NameThresholds ==
    (Validated /\ IsSome(mrzData) /\ Truthy(Value(extractedData.fullName))) =>
        /\ Len(ChecksOf("Name")) = 1
        /\ ChecksOf("Name")[1].status =
              IF 5 * NameRatio.num > 4 * NameRatio.den THEN "pass"
              ELSE IF 5 * NameRatio.num > 3 * NameRatio.den THEN "warning"
              ELSE "fail"

C18_Witness ==
    /\ pc = "validateDocument"
    /\ IsSome(mrzData)
    /\ Truthy(Value(extractedData.fullName))
    /\ NameRatio = [num |-> 16, den |-> 20]
    /\ ChecksOf("Name")[1].status = "warning"

\* a string in upper case without the characters that are neither letters
\* nor digits
Alphanumeric(str) ==
    LET upper == [i \in 1..Len(str) |->
                     IF str[i] \in Range(LowerCase)
                     THEN UpperCase[IndexOf(LowerCase, str[i])] ELSE str[i]]
    IN  SelectSeq(upper, LAMBDA c : c \in Range(Alphanumerics))

SameNumber(a, b) == Alphanumeric(a) = Alphanumeric(b)

\* C19: the 'Document Number' check (MRZ against extracted number) is 'pass'
\* when the two numbers are equal after normalization and 'warning'
\* otherwise, never 'fail'; the 'Passport Number Match' check (form against
\* extracted number) is 'pass' or 'fail' by the same comparison, never
\* 'warning'.
C19_MismatchWarnsOrFails ==
    Validated =>
        /\ \A i \in 1..Len(ChecksOf("Document Number")) :
              ChecksOf("Document Number")[i].status =
                  IF SameNumber(Value(extractedData.documentNumber),
                                Get(mrzData).documentNumber)
                  THEN "pass" ELSE "warning"
        /\ \A i \in 1..Len(ChecksOf("Passport Number Match")) :
              ChecksOf("Passport Number Match")[i].status =
                  IF SameNumber(Get(applicantForm).passportNumber,
                                Value(extractedData.documentNumber))
                  THEN "pass" ELSE "fail"
        /\ Len(ChecksOf("Document Number")) =
              IF IsSome(mrzData) /\ Truthy(Value(extractedData.documentNumber))
                 /\ Truthy(Get(mrzData).documentNumber)
              THEN 1 ELSE 0
        /\ Len(ChecksOf("Passport Number Match")) =
              IF IsSome(applicantForm) /\ Truthy(Value(extractedData.documentNumber))
              THEN 1 ELSE 0

C19_Witness ==
    /\ pc = "validateDocument"
    /\ Len(ChecksOf("Document Number")) = 1
    /\ ChecksOf("Document Number")[1].status = "warning"
    /\ Len(ChecksOf("Passport Number Match")) = 1
    /\ ChecksOf("Passport Number Match")[1].status = "fail"

\* what the free text alone gave for the request that was answered
FreeText == extractDocumentFields(text)

\* the handler answered with a result
Answered == pc = "POST" /\ responseStatus = 200

\* the MRZ's own name, as the enrichment writes it
MRZName == Trim(Get(mrzData).givenNames \o <<" ">> \o Get(mrzData).surname)

\* no field that the free text gave is changed by the enrichment
FreeTextKept ==
    \A name \in DOMAIN FreeText :
        IsSome(FreeText[name]) => extractedData[name] = FreeText[name]

\* the one check of a field is 'pass'
OnePass(field) == Len(ChecksOf(field)) = 1 /\ ChecksOf(field)[1].status = "pass"

\* C20 as the sentence states it: the enrichment overwrites no field that the
\* free text gave, and with an MRZ record decoded, a fullName (a
\* documentNumber) that the free text did not give is filled from the MRZ
\* and its 'Name' ('Document Number') check is 'pass', whatever checksumValid
\* is.
C20_AsStated ==
    Answered =>
        /\ FreeTextKept
        /\ IsSome(mrzData) /\ ~IsSome(FreeText.fullName) =>
              /\ extractedData.fullName = FieldOf(Some(MRZName), 90)
              /\ OnePass("Name")
        /\ IsSome(mrzData) /\ ~IsSome(FreeText.documentNumber) =>
              /\ extractedData.documentNumber =
                    FieldOf(Some(Get(mrzData).documentNumber), 90)
              /\ OnePass("Document Number")

\* C20 amended: the enrichment overwrites no field that the free text gave.
\* With an MRZ record decoded, a fullName that the free text did not give is
\* filled with the MRZ's name at confidence 90, and the 'Name' check is
\* 'pass' when that name is not empty and absent when it is; a
\* documentNumber that the free text did not give is filled with the MRZ's
\* number at confidence 90 and its 'Document Number' check is 'pass' when the
\* MRZ's number is not empty, and stays absent with no such check when it is
\* empty.  None of this depends on checksumValid.
C20_EnrichmentSelfCheck ==
    Answered =>
        /\ FreeTextKept
        /\ IsSome(mrzData) /\ ~IsSome(FreeText.fullName) =>
              /\ extractedData.fullName = FieldOf(Some(MRZName), 90)
              /\ IF Truthy(MRZName) THEN OnePass("Name")
                 ELSE Len(ChecksOf("Name")) = 0
        /\ IsSome(mrzData) /\ ~IsSome(FreeText.documentNumber) =>
              IF Truthy(Get(mrzData).documentNumber)
              THEN /\ extractedData.documentNumber =
                         FieldOf(Some(Get(mrzData).documentNumber), 90)
                   /\ OnePass("Document Number")
              ELSE /\ extractedData.documentNumber = None
                   /\ Len(ChecksOf("Document Number")) = 0

\* a decoded MRZ whose check digits are wrong, a free text that gave neither
\* name nor number, and both cross-checks passed on the MRZ's own values
C20_Witness ==
    /\ Answered
    /\ IsSome(mrzData) /\ ~Get(mrzData).checksumValid
    /\ ~IsSome(FreeText.fullName) /\ ~IsSome(FreeText.documentNumber)
    /\ OnePass("Name") /\ OnePass("Document Number")
    /\ Get(extractedData.fullName).confidence = 90

\* handleVerify starts a request in this step
VerifyStarts == pc = "Home" /\ pc' = "fetch"

\* the request of handleVerify settles in this step
VerifySettles == pc = "fetch" /\ pc' = "Home"

\* handleVerify runs without a selected file in this step
VerifyWithoutImage == pc = "Home" /\ ~IsSome(imageFile) /\ error' # error

\* C21: a verify attempt with a selected image sets loading and clears error
\* and result, and they stay so while the request is under way; when the
\* request settles loading is false again and exactly one of result and
\* error is set; a verify attempt without an image sets the error and
\* nothing else, loading stays false.
C21_VerifyAttempt ==
    [][/\ VerifyStarts => IsSome(imageFile) /\ loading' /\ error' = "" /\ ~IsSome(result')
       /\ pc' = "fetch" => loading' /\ error' = "" /\ ~IsSome(result')
       /\ VerifySettles => ~loading' /\ (IsSome(result') # (error' # ""))
       /\ VerifyWithoutImage =>
             /\ error' = "Please select an image file"
             /\ ~loading'
             /\ UNCHANGED <<pc, imageFile, imagePreview, result, loading, readers>>]_vars

\* a request for a selected file has settled with a result: the result is
\* shown without an error, and loading is over
C21_Witness ==
    /\ pc = "Home"
    /\ IsSome(imageFile)
    /\ IsSome(result)
    /\ error = ""
    /\ ~loading

\* C22: once every file read that the selections started has completed
\* (none of them having ended the display with a failed read), the
\* imagePreview is the content of the file held in imageFile, whatever the
\* order in which the reads completed.
C22_PreviewShowsSelectedFile ==
    (pc \in {"Home", "fetch"} /\ readers = <<>> /\ IsSome(imageFile)
        /\ imagePreview # <<"null">>)
    => imagePreview = DataURL(Get(imageFile))

====
